---- MODULE Spec2Model ----
(***************************************************************************)
(* Model of suitcase.nxsas: the Serializer document state machine          *)
(* (start / descriptor / event_page / stop), its scope protocol            *)
(* (__enter__/__exit__/export), the artifacts accessor, the shape         *)
(* reconciler check_and_correct_h5_descriptor_array_shape, and the NeXus   *)
(* helpers of utils.py: _parse_bluesky_document_path,                      *)
(* _get_h5_group_or_dataset and _copy_nexus_md_to_nexus_h5.                *)
(* SpecPaging cuts one event sequence into pages of differing size, and    *)
(* SpecRuns interleaves the documents of two Serializer instances.         *)
(*                                                                         *)
(* Python None is modelled by the empty sequence <<>> and a present value  *)
(* v by <<v>>, so that "is None" and "in group" stay comparable in TLC.    *)
(* The HDF5 container is the record h5; a group child that does not exist  *)
(* is <<>>, a child that exists is a one-element sequence.                 *)
(***************************************************************************)
EXTENDS Integers, Sequences, FiniteSets, TLC

\* ---------------------------------------------------------------- bounds
MaxPages == 2
MaxPage == 2
MaxRank == 3
MaxBlocks == 2

\* ------------------------------------------------------- input universes
Uids == {"u1", "u2"}
DescUids == {"d1", "d2"}
Streams == {"primary", "baseline"}
Fields == {"en_energy", "image"}
Dims == {2, 3}
Prefixes == {"{uid}-", "{sample_name}-"}
Settings == {{}, {<<"libver", "latest">>}}

None == <<>>
Some(v) == <<v>>
NoError == "none"

\* ------------------------------------------------------------- sequences
RECURSIVE reversed(_)
reversed(s) == IF s = <<>> THEN <<>> ELSE Append(reversed(Tail(s)), Head(s))

Prefix2(s) == SubSeq(s, 1, IF Len(s) < 2 THEN Len(s) ELSE 2)

RECURSIVE SeqsUpTo(_, _)
SeqsUpTo(S, n) ==
  IF n = 0 THEN {<<>>}
  ELSE LET shorter == SeqsUpTo(S, n - 1)
       IN shorter \cup {Append(s, x) : s \in {t \in shorter : Len(t) = n - 1}, x \in S}

zeros(k) == [i \in 1..k |-> 0]

\* ------------------------------------------------------------- documents
\* RunStart document: uid, optional sample_name, and md.techniques: absent, or
\* a list of technique blocks (each with "technique", "version" and "nxsas").
Techniques == {None} \cup {Some(blocks) : blocks \in SeqsUpTo({"SAXS"}, MaxBlocks)}
StartDocs ==
  [uid : Uids, sample_name : {None, Some("s")}, techniques : Techniques]

\* data_keys of a descriptor: en_energy is a "number" scalar, image (when
\* declared) is an "array" with a declared shape.
Undeclared == [declared |-> FALSE, dtype |-> "", shape |-> <<>>]
Number == [declared |-> TRUE, dtype |-> "number", shape |-> <<>>]
Array(shape) == [declared |-> TRUE, dtype |-> "array", shape |-> shape]
DeclaredShapes == {<<2, 3, 0>>, <<3, 2, 0>>, <<3, 3, 0>>}
DataKeys ==
  {[en_energy |-> Number, image |-> Undeclared]}
  \cup {[en_energy |-> Number, image |-> Array(sh)] : sh \in DeclaredShapes}

DescriptorDocs ==
  [uid : DescUids, run_start : Uids, name : Streams, data_keys : DataKeys]

\* event_page document number n carrying k events per data list and tsk
\* entries per timestamps list; every value and every timestamp is distinct.
ObservedShapes == {<<2, 3>>}
Unfilled == {{}} \cup {{f} : f \in Fields}
KeyOrders == {ks \in SeqsUpTo(Fields, 2) : Len(ks) >= 1 /\ (Len(ks) = 2 => ks[1] # ks[2])}
ep_values(n, k) == [i \in 1..k |-> 10 * n + i]
ep_stamps(n, k) == [i \in 1..k |-> 1000 + 10 * n + i]
EventPageDoc(n, d, ks, k, tsk, unfilled, obs) ==
  [seq_num |-> n, descriptor |-> d, keys |-> ks,
   data |-> [f \in Fields |-> ep_values(n, k)],
   timestamps |-> [f \in Fields |-> ep_stamps(n, tsk)],
   filled |-> [f \in Fields |-> f \notin unfilled],
   shape |-> [f \in Fields |-> IF f = "image" THEN obs ELSE <<>>],
   dtype |-> [f \in Fields |-> "u4"]]

VARIABLES
  mode,              \* "export": driven inside a with-block; "router": bare calls
  scope,             \* "in" the with-block, or "out" after __exit__
  file_prefix,       \* Serializer._file_prefix
  kwargs,            \* Serializer._kwargs: the additional keyword settings
  start_doc,         \* SingleRunDocumentRouter._start_doc
  descriptors,       \* SingleRunDocumentRouter._descriptors (set of docs, keyed by uid)
  output_filepath,   \* Serializer.output_filepath
  h5_output_file,    \* Serializer._h5_output_file: None or the File object
  h5_open,           \* the File's id is valid (opened and not yet closed)
  h5,                \* contents of the container
  name,              \* kind of the last document delivered
  raised,            \* error raised by the last call, or NoError
  raised_at,         \* position in the page's keys of the data_key that raised
  propagated,        \* error that left the with-block
  close_calls,       \* number of Serializer.close() calls
  releases,          \* number of times the container went from open to closed
  seq_num,           \* number of event_pages delivered
  supplied,          \* history: values/timestamps of the pages processed per field
  clean,             \* fields all of whose pages were processed whole
  rc_shape, rc_event_shape, rc_raised, rc_runs, rc_history,
  address,           \* a bluesky document path, as a sequence of tokens
  intended,          \* the parts the address was written from, or None
  nexus_md,          \* a NeXus payload that refers to the address
  h5_file,           \* the container the payload is materialized in
  parsed,            \* None, or the outcome of _parse_bluesky_document_path
  resolved,          \* None, or the outcome of _get_h5_group_or_dataset
  materialized,      \* None, or the outcome of _copy_nexus_md_to_nexus_h5
  a_mapping,         \* a document handed to _copy_metadata_to_h5_datasets
  copied,            \* None, or the outcome of _copy_metadata_to_h5_datasets
  serializers,       \* the attributes of each of two Serializer instances
  disk,              \* the files of the output directory, by path
  delivered          \* history: the documents each instance was called with

main_vars == <<mode, scope, file_prefix, kwargs, start_doc, descriptors, output_filepath,
               h5_output_file, h5_open, h5, name, raised, raised_at,
               propagated, close_calls, releases, seq_num, supplied, clean>>
rc_vars == <<rc_shape, rc_event_shape, rc_raised, rc_runs, rc_history>>
pl_vars == <<address, intended, nexus_md, h5_file, parsed, resolved, materialized,
             a_mapping, copied>>
rn_vars == <<serializers, disk, delivered>>
vars == <<main_vars, rc_vars, pl_vars, rn_vars>>

\* ------------------------------------------------------------- container
EmptyFile ==
  [groups |-> {},
   start |-> None,
   descriptors |-> [s \in Streams |-> None],
   events |-> {},
   data |-> [s \in Streams |-> [f \in Fields |-> None]],
   timestamps |-> [s \in Streams |-> [f \in Fields |-> None]],
   stop |-> None,
   nexus |-> {}]


\* ------------------------------------------------------ shape reconciler
Rest(s) == IF s = <<>> THEN <<>> ELSE Tail(s)

\* variant: a shape that cannot be reconciled is let through
check_and_correct_lenient(shape_in_descriptor, shape_in_event_page) ==
  IF Prefix2(shape_in_descriptor) = shape_in_event_page
  THEN [raised |-> NoError, shape |-> shape_in_descriptor]
  ELSE IF Rest(reversed(shape_in_descriptor)) = shape_in_event_page
  THEN [raised |-> NoError, shape |-> reversed(shape_in_descriptor)]
  ELSE [raised |-> NoError, shape |-> shape_in_descriptor]

\* check_and_correct_h5_descriptor_array_shape: the shape it leaves in the
\* descriptor group and the error it raises.
check_and_correct_h5_descriptor_array_shape(shape_in_descriptor, shape_in_event_page) ==
  IF Prefix2(shape_in_descriptor) = shape_in_event_page
  THEN [raised |-> NoError, shape |-> shape_in_descriptor]
  ELSE IF Rest(reversed(shape_in_descriptor)) = shape_in_event_page
  THEN [raised |-> NoError, shape |-> reversed(shape_in_descriptor)]
  ELSE [raised |-> "ValueError:shape", shape |-> shape_in_descriptor]

\* --------------------------------------------------------- dtype resolver
\* variant: a category that is not known is stored as 8-byte float
get_h5_dtype_defaulting(descriptor_dtype, sample_dtype) ==
  IF descriptor_dtype = "array" THEN [raised |-> NoError, dtype |-> sample_dtype]
  ELSE IF descriptor_dtype = "string" THEN [raised |-> NoError, dtype |-> "vlen_str"]
  ELSE IF descriptor_dtype = "integer" THEN [raised |-> NoError, dtype |-> "i4"]
  ELSE [raised |-> NoError, dtype |-> "f8"]

descriptor_dtype_to_h5_dtype == [string |-> "vlen_str", number |-> "f8", integer |-> "i4"]

get_h5_dtype_from_descriptor_dtype(descriptor_dtype, sample_dtype) ==
  IF descriptor_dtype = "array"
  THEN [raised |-> NoError, dtype |-> sample_dtype]
  ELSE IF descriptor_dtype \in DOMAIN descriptor_dtype_to_h5_dtype
  THEN [raised |-> NoError, dtype |-> descriptor_dtype_to_h5_dtype[descriptor_dtype]]
  ELSE [raised |-> "ValueError:dtype", dtype |-> ""]

\* ------------------------------------------------------------ event_page
\* Results of the steps of the handler: the container left behind and the
\* error raised.
Returned(h) == [h5 |-> h, raised |-> NoError]
Raised(h, err) == [h5 |-> h, raised |-> err]

\* ts[:] = ep_data_timestamps_array on a new dataset of k rows: the container
\* broadcasts a one-element source, takes a source of k elements as it is
\* and rejects any other length, leaving the fill value.
broadcast(arr, k) ==
  IF Len(arr) = k THEN [raised |-> NoError, rows |-> arr]
  ELSE IF Len(arr) = 1 THEN [raised |-> NoError, rows |-> [i \in 1..k |-> arr[1]]]
  ELSE [raised |-> "TypeError:broadcast", rows |-> zeros(k)]

\* ds[...] = ep_data_array: the container converts numbers from one numeric
\* type to another and text ("U", an array of str) to its string type; it has
\* no conversion between text and numbers.  (Samples of "array" fields are
\* numeric.)
can_write(sample_dtype, h5_dtype) ==
  IF h5_dtype = "vlen_str" THEN sample_dtype = "U" ELSE sample_dtype # "U"

\* first event page for this data_key: check the declared shape, resolve the
\* element type, create and fill the data and the timestamps dataset
create_datasets(h, stream, doc, key) ==
  LET info == h.descriptors[stream][1].data_keys[key]
      ep_data_array == doc.data[key]
      chk == IF info.dtype = "array"
             THEN check_and_correct_h5_descriptor_array_shape(info.shape, doc.shape[key])
             ELSE [raised |-> NoError, shape |-> info.shape]
      h1 == [h EXCEPT !.descriptors[stream][1].data_keys[key].shape = chk.shape]
      dt == get_h5_dtype_from_descriptor_dtype(info.dtype, doc.dtype[key])
      ds == [shape |-> doc.shape[key], dtype |-> dt.dtype, rows |-> ep_data_array]
      created == [ds EXCEPT !.rows = zeros(Len(ep_data_array))]
      h2 == [h1 EXCEPT !.data[stream][key] = Some(ds)]
      ts == broadcast(doc.timestamps[key], Len(ep_data_array))
      h3 == [h2 EXCEPT !.timestamps[stream][key] = Some(ts.rows)]
  IN IF chk.raised # NoError THEN Raised(h, chk.raised)
     ELSE IF dt.raised # NoError THEN Raised(h1, dt.raised)
     ELSE IF ~can_write(doc.dtype[key], dt.dtype)
     THEN Raised([h1 EXCEPT !.data[stream][key] = Some(created)], "TypeError:conversion")
     ELSE IF ts.raised # NoError THEN Raised(h3, ts.raised)
     ELSE Returned(h3)

\* variant: the incoming rows are written at the head of the datasets
append_at_head(h, stream, doc, key) ==
  LET ds == h.data[stream][key][1]
      written == [ds EXCEPT !.rows = doc.data[key] \o ds.rows]
      h2 == [h EXCEPT !.data[stream][key] = Some(written)]
      h3 == [h2 EXCEPT !.timestamps[stream][key] =
               Some(doc.timestamps[key] \o h.timestamps[stream][key][1])]
  IN IF doc.shape[key] # ds.shape THEN Raised(h, "TypeError:broadcast")
     ELSE IF h.timestamps[stream][key] = None THEN Raised(h2, "KeyError:timestamps")
     ELSE Returned(h3)

\* variant: the datasets grow by one row more than the page carries
append_overallocated(h, stream, doc, key) ==
  LET ds == h.data[stream][key][1]
      written == [ds EXCEPT !.rows = ds.rows \o zeros(1) \o doc.data[key]]
      h2 == [h EXCEPT !.data[stream][key] = Some(written)]
      h3 == [h2 EXCEPT !.timestamps[stream][key] =
               Some(h.timestamps[stream][key][1] \o zeros(1) \o doc.timestamps[key])]
  IN IF doc.shape[key] # ds.shape THEN Raised(h, "TypeError:broadcast")
     ELSE IF h.timestamps[stream][key] = None THEN Raised(h2, "KeyError:timestamps")
     ELSE Returned(h3)

\* the datasets exist: resize each by the length of its own incoming list
\* and write the list into the new tail
append_to_datasets(h, stream, doc, key) ==
  LET ds == h.data[stream][key][1]
      ep_data_array == doc.data[key]
      ep_data_timestamps_array == doc.timestamps[key]
      resized == [ds EXCEPT !.rows = ds.rows \o zeros(Len(ep_data_array))]
      written == [ds EXCEPT !.rows = ds.rows \o ep_data_array]
      h1 == [h EXCEPT !.data[stream][key] = Some(resized)]
      h2 == [h EXCEPT !.data[stream][key] = Some(written)]
      h3 == [h2 EXCEPT !.timestamps[stream][key] =
               Some(h.timestamps[stream][key][1] \o ep_data_timestamps_array)]
  IN IF doc.shape[key] # ds.shape THEN Raised(h1, "TypeError:broadcast")
     ELSE IF ~can_write(doc.dtype[key], ds.dtype) THEN Raised(h1, "TypeError:conversion")
     ELSE IF h.timestamps[stream][key] = None THEN Raised(h2, "KeyError:timestamps")
     ELSE Returned(h3)

\* variant: the storage of the field is shared by every stream of the run
event_page_key_spilling(h, stream, doc, key) ==
  LET r == IF ~doc.filled[key] THEN Raised(h, "ValueError:unfilled")
           ELSE IF ~h.descriptors[stream][1].data_keys[key].declared
           THEN Raised(h, "KeyError:data_key")
           ELSE IF h.data[stream][key] = None THEN create_datasets(h, stream, doc, key)
           ELSE append_to_datasets(h, stream, doc, key)
  IN [h5 |-> [r.h5 EXCEPT !.data = [s \in Streams |->
                              IF r.h5.descriptors[s] # None
                              THEN [r.h5.data[s] EXCEPT ![key] = r.h5.data[stream][key]]
                              ELSE r.h5.data[s]]],
      raised |-> r.raised]

\* variant: a field the descriptor did not declare is stored as a number
event_page_key_accepting(h, stream, doc, key) ==
  IF ~doc.filled[key] THEN Raised(h, "ValueError:unfilled")
  ELSE IF ~h.descriptors[stream][1].data_keys[key].declared /\ h.data[stream][key] = None
  THEN Returned([h EXCEPT !.data[stream][key] =
                            Some([shape |-> doc.shape[key], dtype |-> "f8", rows |-> doc.data[key]]),
                          !.timestamps[stream][key] = Some(doc.timestamps[key])])
  ELSE IF h.data[stream][key] = None THEN create_datasets(h, stream, doc, key)
  ELSE append_to_datasets(h, stream, doc, key)

\* variant: the declared shape is checked on every page that carries the field
event_page_key_rechecking(h, stream, doc, key) ==
  IF ~doc.filled[key] THEN Raised(h, "ValueError:unfilled")
  ELSE IF ~h.descriptors[stream][1].data_keys[key].declared THEN Raised(h, "KeyError:data_key")
  ELSE IF h.data[stream][key] = None THEN create_datasets(h, stream, doc, key)
  ELSE IF /\ h.descriptors[stream][1].data_keys[key].dtype = "array"
          /\ check_and_correct_h5_descriptor_array_shape(
                h.descriptors[stream][1].data_keys[key].shape, doc.shape[key]).raised # NoError
  THEN Raised(h, "ValueError:shape")
  ELSE append_to_datasets(h, stream, doc, key)

\* One iteration of the loop over event_page_doc["data"].items()
event_page_key(h, stream, doc, key) ==
  IF ~doc.filled[key] THEN Raised(h, "ValueError:unfilled")
  ELSE IF ~h.descriptors[stream][1].data_keys[key].declared THEN Raised(h, "KeyError:data_key")
  ELSE IF h.data[stream][key] = None THEN create_datasets(h, stream, doc, key)
  ELSE append_to_datasets(h, stream, doc, key)

\* The loop over the data_keys of the page in dictionary order, from
\* position i on; it stops at the first data_key that raises.
RECURSIVE event_page_loop(_, _, _, _)
event_page_loop(h, stream, doc, i) ==
  IF i > Len(doc.keys) THEN [h5 |-> h, raised |-> NoError, at |-> 0]
  ELSE LET r == event_page_key(h, stream, doc, doc.keys[i])
       IN IF r.raised # NoError THEN [h5 |-> r.h5, raised |-> r.raised, at |-> i]
          ELSE event_page_loop(r.h5, stream, doc, i + 1)

\* SingleRunDocumentRouter.get_descriptor / get_stream_name
get_descriptor(doc) == {d \in descriptors : d.uid = doc.descriptor}
get_stream_name(doc) == (CHOOSE d \in get_descriptor(doc) : TRUE).name

\* variant: a page of a descriptor that was never seen is written to the
\* stream "primary" before it is rejected
event_page_unchecked(doc) ==
  IF get_descriptor(doc) = {}
  THEN [h5 |-> IF h5_output_file # None /\ h5_open /\ h5.descriptors["primary"] # None
               THEN event_page_loop(h5, "primary", doc, 1).h5
               ELSE h5,
        raised |-> "EventModelValueError", at |-> 0]
  ELSE IF h5_output_file = None THEN [h5 |-> h5, raised |-> "TypeError:NoneType", at |-> 0]
  ELSE IF ~h5_open THEN [h5 |-> h5, raised |-> "ValueError:closed", at |-> 0]
  ELSE IF h5.descriptors[get_stream_name(doc)] = None
  THEN [h5 |-> h5, raised |-> "KeyError:stream", at |-> 0]
  ELSE event_page_loop(h5, get_stream_name(doc), doc, 1)

\* variant: the handler does not notice that the container is closed
event_page_on_closed(doc) ==
  IF get_descriptor(doc) = {} THEN [h5 |-> h5, raised |-> "EventModelValueError", at |-> 0]
  ELSE IF h5_output_file = None THEN [h5 |-> h5, raised |-> "TypeError:NoneType", at |-> 0]
  ELSE IF h5.descriptors[get_stream_name(doc)] = None
  THEN [h5 |-> h5, raised |-> "KeyError:stream", at |-> 0]
  ELSE event_page_loop(h5, get_stream_name(doc), doc, 1)

\* Serializer.event_page: the whole handler
event_page(doc) ==
  IF get_descriptor(doc) = {} THEN [h5 |-> h5, raised |-> "EventModelValueError", at |-> 0]
  ELSE IF h5_output_file = None THEN [h5 |-> h5, raised |-> "TypeError:NoneType", at |-> 0]
  ELSE IF ~h5_open THEN [h5 |-> h5, raised |-> "ValueError:closed", at |-> 0]
  ELSE IF h5.descriptors[get_stream_name(doc)] = None
  THEN [h5 |-> h5, raised |-> "KeyError:stream", at |-> 0]
  ELSE event_page_loop(h5, get_stream_name(doc), doc, 1)


\* ----------------------------------------------------------------- start
\* h5py.File(name, mode, **kwds): the object records what it was opened with
File(path, file_mode, kwds) == [name |-> path, mode |-> file_mode, kwds |-> kwds]

\* variant: a field the start document lacks is formatted as "None"
format_with_default(prefix, doc) ==
  IF prefix = "{uid}-" THEN [raised |-> NoError, text |-> <<doc.uid, "-">>]
  ELSE IF doc.sample_name = None THEN [raised |-> NoError, text |-> <<"None", "-">>]
  ELSE [raised |-> NoError, text |-> <<doc.sample_name[1], "-">>]

\* variant: the default template names every run's file alike
format_without_uid(prefix, doc) ==
  IF prefix = "{uid}-" THEN [raised |-> NoError, text |-> <<"run", "-">>]
  ELSE IF doc.sample_name = None THEN [raised |-> "KeyError:template", text |-> <<>>]
  ELSE [raised |-> NoError, text |-> <<doc.sample_name[1], "-">>]

\* str.format of the file prefix with the start document's fields
format(prefix, doc) ==
  IF prefix = "{uid}-" THEN [raised |-> NoError, text |-> <<doc.uid, "-">>]
  ELSE IF doc.sample_name = None THEN [raised |-> "KeyError:template", text |-> <<>>]
  ELSE [raised |-> NoError, text |-> <<doc.sample_name[1], "-">>]

\* _copy_metadata_to_h5_datasets on the start document: one leaf per key, a
\* group per nested mapping (md); an empty list is written as an array of
\* strings, a list of mappings is rejected by the container (TypeError) and
\* stored JSON-encoded instead.
string_array(value) == <<"vlen_str", value>>
json_dumps(value) == <<"json", value>>
start_section(doc) ==
  [uid |-> doc.uid,
   sample_name |-> doc.sample_name,
   md |-> IF doc.techniques = None THEN None
          ELSE Some([techniques |-> IF doc.techniques[1] = <<>>
                                    THEN string_array(doc.techniques[1])
                                    ELSE json_dumps(doc.techniques[1])])]

\* variant: the stop group is not created at start
started_file_without_stop(doc) ==
  [EmptyFile EXCEPT !.groups = {"start", "descriptors", "events"},
                    !.start = Some(start_section(doc))]

\* the container right after Serializer.start: bluesky/ with its four groups
started_file(doc) ==
  [EmptyFile EXCEPT !.groups = {"start", "descriptors", "events", "stop"},
                    !.start = Some(start_section(doc))]

\* what a call leaves alone unless it says otherwise
Delivered(kind, err) ==
  /\ name' = kind
  /\ raised' = err
  /\ UNCHANGED <<mode, scope, file_prefix, kwargs, propagated, rc_vars, pl_vars, rn_vars>>

\* the driver hands over a document: inside the with-block export stops at the
\* first error; a router keeps calling
CanDeliver == scope = "in" /\ (mode = "export" => raised = NoError)

\* serializer("start", doc): SingleRunDocumentRouter.__call__, then Serializer.start
Start(doc) ==
  /\ CanDeliver
  /\ UNCHANGED <<descriptors, raised_at, close_calls, releases, seq_num, supplied, clean>>
  /\ IF start_doc # None
     THEN /\ Delivered("start", "EventModelValueError")
          /\ UNCHANGED <<start_doc, output_filepath, h5_output_file, h5_open, h5>>
     ELSE /\ start_doc' = Some(doc)
          /\ LET templated == format(file_prefix, doc)
             IN IF templated.raised # NoError
                THEN /\ Delivered("start", templated.raised)
                     /\ UNCHANGED <<output_filepath, h5_output_file, h5_open, h5>>
                ELSE /\ Delivered("start", NoError)
                     /\ output_filepath' = Some(<<"directory", templated.text, ".h5">>)
                     /\ h5_output_file' = Some(File(output_filepath', "w", {}))
                     /\ h5_open' = TRUE
                     /\ h5' = started_file(doc)

\* variant: the descriptor allocates storage for the fields it declares
descriptor_allocating(doc) ==
  IF h5_output_file = None THEN [h5 |-> h5, raised |-> "TypeError:NoneType"]
  ELSE IF ~h5_open THEN [h5 |-> h5, raised |-> "ValueError:closed"]
  ELSE IF h5.descriptors[doc.name] # None THEN [h5 |-> h5, raised |-> "ValueError:exists"]
  ELSE [h5 |-> [h5 EXCEPT !.descriptors[doc.name] = Some(doc),
                          !.events = @ \cup {doc.name},
                          !.data[doc.name] = [f \in Fields |->
                             IF doc.data_keys[f].declared
                             THEN Some([shape |-> <<>>, dtype |-> "f8", rows |-> <<>>])
                             ELSE None]],
        raised |-> NoError]

\* variant: a descriptor for a stream that exists replaces the stream
descriptor_replacing(doc) ==
  IF h5_output_file = None THEN [h5 |-> h5, raised |-> "TypeError:NoneType"]
  ELSE IF ~h5_open THEN [h5 |-> h5, raised |-> "ValueError:closed"]
  ELSE [h5 |-> [h5 EXCEPT !.descriptors[doc.name] = Some(doc),
                          !.events = @ \cup {doc.name},
                          !.data[doc.name] = [f \in Fields |-> None],
                          !.timestamps[doc.name] = [f \in Fields |-> None]],
        raised |-> NoError]

\* serializer("descriptor", doc)
descriptor(doc) ==
  IF h5_output_file = None THEN [h5 |-> h5, raised |-> "TypeError:NoneType"]
  ELSE IF ~h5_open THEN [h5 |-> h5, raised |-> "ValueError:closed"]
  ELSE IF h5.descriptors[doc.name] # None THEN [h5 |-> h5, raised |-> "ValueError:exists"]
  ELSE [h5 |-> [h5 EXCEPT !.descriptors[doc.name] = Some(doc),
                          !.events = @ \cup {doc.name}],
        raised |-> NoError]

Descriptor(doc) ==
  /\ CanDeliver
  /\ UNCHANGED <<start_doc, output_filepath, h5_output_file, h5_open, raised_at,
                 close_calls, releases, seq_num, supplied, clean>>
  /\ IF start_doc = None
     THEN Delivered("descriptor", "TypeError:NoneType") /\ UNCHANGED <<descriptors, h5>>
     ELSE IF doc.run_start # start_doc[1].uid
     THEN Delivered("descriptor", "EventModelValueError") /\ UNCHANGED <<descriptors, h5>>
     ELSE /\ descriptors' = {d \in descriptors : d.uid # doc.uid} \cup {doc}
          /\ h5' = descriptor(doc).h5
          /\ Delivered("descriptor", descriptor(doc).raised)

\* serializer("event_page", doc)
EventPage(doc) ==
  /\ CanDeliver
  /\ seq_num < MaxPages
  /\ seq_num' = seq_num + 1
  /\ UNCHANGED <<start_doc, descriptors, output_filepath, h5_output_file, h5_open,
                 close_calls, releases>>
  /\ LET r == event_page(doc)
         entered == r.raised = NoError \/ r.at > 0
         stream == get_stream_name(doc)
         named == {doc.keys[i] : i \in 1..Len(doc.keys)}
         whole == r.raised = NoError
                  /\ \A f \in named : Len(doc.data[f]) = Len(doc.timestamps[f])
     IN /\ h5' = r.h5
        /\ raised_at' = r.at
        /\ Delivered("event_page", r.raised)
        /\ IF ~entered THEN UNCHANGED <<supplied, clean>>
           ELSE /\ clean' = IF whole THEN clean ELSE clean \ {<<stream, f>> : f \in named}
                /\ supplied' =
                     [s \in Streams |-> [f \in Fields |->
                        IF s = stream /\ f \in named /\ r.raised = NoError
                        THEN [data |-> supplied[s][f].data \o doc.data[f],
                              timestamps |-> supplied[s][f].timestamps \o doc.timestamps[f],
                              events |-> supplied[s][f].events + Len(doc.data[f]),
                              pages |-> supplied[s][f].pages + 1]
                        ELSE supplied[s][f]]]

\* variant: close leaves the container open
close_keeps_open ==
  IF h5_output_file = None THEN [raised |-> "AttributeError:NoneType", open |-> h5_open]
  ELSE [raised |-> NoError, open |-> h5_open]

\* Serializer.close
close ==
  IF h5_output_file = None THEN [raised |-> "AttributeError:NoneType", open |-> h5_open]
  ELSE [raised |-> NoError, open |-> FALSE]

Close(r) ==
  /\ close_calls' = close_calls + 1
  /\ h5_open' = r.open
  /\ releases' = IF h5_open /\ ~r.open THEN releases + 1 ELSE releases

\* _copy_nexus_md_to_nexus_h5(nexus_md=..., h5_group_or_dataset=...) as stop
\* calls it: the function's parameters are (nexus_md, h5_group), so the call
\* raises before the function body runs and the container is left as it was.
copy_nexus_md_called_from_stop(h, block) ==
  [h5 |-> h, raised |-> "TypeError:unexpected keyword argument"]

\* the loop over start_doc["md"]["techniques"], from block i on; it stops at
\* the first block that raises
RECURSIVE materialize_techniques(_, _, _)
materialize_techniques(h, techniques_md, i) ==
  IF i > Len(techniques_md) THEN [h5 |-> h, raised |-> NoError]
  ELSE LET r == copy_nexus_md_called_from_stop(h, techniques_md[i])
       IN IF r.raised # NoError THEN r
          ELSE materialize_techniques(r.h5, techniques_md, i + 1)

\* stop metadata, technique blocks and close on an open container
write_stop ==
  IF h5.stop # None THEN [h5 |-> h5, raised |-> "ValueError:exists", closes |-> FALSE]
  ELSE LET written == [h5 EXCEPT !.stop = Some("stop")]
           techniques == start_doc[1].techniques
           r == IF techniques = None THEN [h5 |-> written, raised |-> NoError]
                ELSE materialize_techniques(written, techniques[1], 1)
       IN [h5 |-> r.h5, raised |-> r.raised, closes |-> r.raised = NoError]

\* variant: a stop that arrives before the container exists is ignored
stop_ignored_without_file ==
  IF h5_output_file = None THEN [h5 |-> h5, raised |-> NoError, closes |-> FALSE]
  ELSE IF ~h5_open THEN [h5 |-> h5, raised |-> "ValueError:closed", closes |-> FALSE]
  ELSE write_stop

\* Serializer.stop
stop ==
  IF h5_output_file = None THEN [h5 |-> h5, raised |-> "TypeError:NoneType", closes |-> FALSE]
  ELSE IF ~h5_open THEN [h5 |-> h5, raised |-> "ValueError:closed", closes |-> FALSE]
  ELSE write_stop

\* serializer("stop", doc)
Stop ==
  /\ CanDeliver
  /\ UNCHANGED <<start_doc, descriptors, output_filepath, h5_output_file, raised_at,
                 seq_num, supplied, clean>>
  /\ h5' = stop.h5
  /\ Delivered("stop", stop.raised)
  /\ IF stop.closes THEN Close(close) ELSE UNCHANGED <<h5_open, close_calls, releases>>

\* variant: leaving the with-block does not close
Exit_without_close ==
  /\ mode = "export"
  /\ scope = "in"
  /\ scope' = "out"
  /\ propagated' = raised
  /\ UNCHANGED <<mode, file_prefix, kwargs, start_doc, descriptors, output_filepath, h5_output_file,
                 h5, name, raised, raised_at, seq_num, supplied, clean, rc_vars, pl_vars, rn_vars,
                 h5_open, close_calls, releases>>

\* Serializer.__exit__ at the end of the with-block of export
Exit ==
  /\ mode = "export"
  /\ scope = "in"
  /\ scope' = "out"
  /\ Close(close)
  /\ propagated' = IF close.raised # NoError THEN close.raised ELSE raised
  /\ UNCHANGED <<mode, file_prefix, kwargs, start_doc, descriptors, output_filepath, h5_output_file,
                 h5, name, raised, raised_at, seq_num, supplied, clean, rc_vars, pl_vars, rn_vars>>

\* variant: the accessor does not check that a path exists
artifacts_unguarded == [stream_data |-> output_filepath]

\* Serializer.artifacts
artifacts ==
  IF output_filepath = None THEN [raised |-> "Exception:no artifacts"]
  ELSE [stream_data |-> <<output_filepath[1]>>]

\* ------------------------------------------------- serializer instances
\* A Serializer instance is the record of its attributes; the container it
\* writes is the file of the directory at its output_filepath.  A file is
\* None (it does not exist) or its contents and whether a handle on it is
\* open.  The handlers below are the handlers above, on the attributes of one
\* instance and the files of the directory.
Runs == {1, 2}
RunUid == [i \in Runs |-> IF i = 1 THEN "u1" ELSE "u2"]
RunDescUid == [i \in Runs |-> IF i = 1 THEN "d1" ELSE "d2"]
RunPaths == {<<"directory", format(prefix, doc).text, ".h5">> : prefix \in Prefixes, doc \in StartDocs}

\* Serializer.__init__
NewSerializer ==
  [start_doc |-> None, descriptors |-> {}, output_filepath |-> None,
   h5_output_file |-> None, h5_open |-> FALSE, raised |-> NoError]
NoFiles == [path \in RunPaths |-> None]

InitRunsIdle ==
  /\ serializers = [i \in Runs |-> NewSerializer]
  /\ disk = NoFiles
  /\ delivered = [i \in Runs |-> <<>>]

Outcome(self, fs, err) == [self |-> [self EXCEPT !.raised = err], disk |-> fs, raised |-> err]
container_of(self, fs) == fs[self.output_filepath[1]][1].h5
put(fs, self, h, open) == [fs EXCEPT ![self.output_filepath[1]] = Some([h5 |-> h, open |-> open])]

\* h5py.File(path, "w"): a file that an open handle refers to cannot be
\* truncated; any other file is created anew
open_for_writing(self, fs, doc) ==
  IF fs[self.output_filepath[1]] # None /\ fs[self.output_filepath[1]][1].open
  THEN Outcome(self, fs, "OSError:already open")
  ELSE Outcome([self EXCEPT !.h5_output_file = Some(File(self.output_filepath, "w", {})),
                            !.h5_open = TRUE],
               put(fs, self, started_file(doc), TRUE), NoError)

start_templated(self, fs, doc, templated) ==
  IF templated.raised # NoError THEN Outcome(self, fs, templated.raised)
  ELSE open_for_writing(
         [self EXCEPT !.output_filepath = Some(<<"directory", templated.text, ".h5">>)], fs, doc)

\* Serializer.start on an instance
Serializer_start(self, fs, doc) ==
  IF self.start_doc # None THEN Outcome(self, fs, "EventModelValueError")
  ELSE start_templated([self EXCEPT !.start_doc = Some(doc)], fs, doc, format("{uid}-", doc))

descriptor_recorded(self, fs, doc) ==
  IF self.h5_output_file = None THEN Outcome(self, fs, "TypeError:NoneType")
  ELSE IF ~self.h5_open THEN Outcome(self, fs, "ValueError:closed")
  ELSE IF container_of(self, fs).descriptors[doc.name] # None
  THEN Outcome(self, fs, "ValueError:exists")
  ELSE Outcome(self,
               put(fs, self, [container_of(self, fs) EXCEPT !.descriptors[doc.name] = Some(doc),
                                                            !.events = @ \cup {doc.name}], TRUE),
               NoError)

\* Serializer.descriptor on an instance
Serializer_descriptor(self, fs, doc) ==
  IF self.start_doc = None THEN Outcome(self, fs, "TypeError:NoneType")
  ELSE IF doc.run_start # self.start_doc[1].uid THEN Outcome(self, fs, "EventModelValueError")
  ELSE descriptor_recorded(
         [self EXCEPT !.descriptors = {d \in @ : d.uid # doc.uid} \cup {doc}], fs, doc)

page_written(self, fs, r) == Outcome(self, put(fs, self, r.h5, TRUE), r.raised)

event_page_in_stream(self, fs, doc, stream) ==
  IF container_of(self, fs).descriptors[stream] = None THEN Outcome(self, fs, "KeyError:stream")
  ELSE page_written(self, fs, event_page_loop(container_of(self, fs), stream, doc, 1))

\* Serializer.event_page on an instance
Serializer_event_page(self, fs, doc) ==
  IF {d \in self.descriptors : d.uid = doc.descriptor} = {}
  THEN Outcome(self, fs, "EventModelValueError")
  ELSE IF self.h5_output_file = None THEN Outcome(self, fs, "TypeError:NoneType")
  ELSE IF ~self.h5_open THEN Outcome(self, fs, "ValueError:closed")
  ELSE event_page_in_stream(self, fs, doc,
         (CHOOSE d \in self.descriptors : d.uid = doc.descriptor).name)

stop_written(self, fs, r) ==
  IF r.raised # NoError THEN Outcome(self, put(fs, self, r.h5, TRUE), r.raised)
  ELSE Outcome([self EXCEPT !.h5_open = FALSE], put(fs, self, r.h5, FALSE), NoError)

stop_metadata_written(self, fs, written) ==
  stop_written(self, fs,
    IF self.start_doc[1].techniques = None THEN [h5 |-> written, raised |-> NoError]
    ELSE materialize_techniques(written, self.start_doc[1].techniques[1], 1))

\* Serializer.stop on an instance
Serializer_stop(self, fs) ==
  IF self.h5_output_file = None THEN Outcome(self, fs, "TypeError:NoneType")
  ELSE IF ~self.h5_open THEN Outcome(self, fs, "ValueError:closed")
  ELSE IF container_of(self, fs).stop # None THEN Outcome(self, fs, "ValueError:exists")
  ELSE stop_metadata_written(self, fs, [container_of(self, fs) EXCEPT !.stop = Some("stop")])

\* serializer(name, doc)
Serializer_call(self, fs, kind, doc) ==
  IF kind = "start" THEN Serializer_start(self, fs, doc)
  ELSE IF kind = "descriptor" THEN Serializer_descriptor(self, fs, doc)
  ELSE IF kind = "event_page" THEN Serializer_event_page(self, fs, doc)
  ELSE Serializer_stop(self, fs)

\* ------------------------------------------------- bluesky document paths
\* A path is a sequence of tokens: "#bluesky", the separators "/" and "@",
\* words of the class \w+ (some of them names of nodes of the container), and
\* "-", a character outside \w.  Adjacent word tokens read as one word.
WordTokens == {"start", "stop", "desc", "primary", "uid", "time", "data_keys", "units"}
Tokens == WordTokens \cup {"#bluesky", "/", "@", "-"}

\* \w+ at position i: the position after the longest run of word characters
RECURSIVE word_run(_, _)
word_run(s, i) == IF i <= Len(s) /\ s[i] \in WordTokens THEN word_run(s, i + 1) ELSE i
has_word(s, i) == word_run(s, i) > i

\* (/\w+)* at position i: the position after the last segment it takes
RECURSIVE keys_run(_, _)
keys_run(s, i) ==
  IF i <= Len(s) /\ s[i] = "/" /\ has_word(s, i + 1)
  THEN keys_run(s, word_run(s, i + 1))
  ELSE i

\* the group doc at position 3: start, stop, or desc/ and a stream name
match_doc(s) ==
  IF s[3] \in {"start", "stop"}
  THEN Some([text |-> <<s[3]>>, stream |-> None, end |-> 4])
  ELSE IF s[3] = "desc" /\ Len(s) >= 5 /\ s[4] = "/" /\ has_word(s, 5)
  THEN Some([text |-> SubSeq(s, 3, word_run(s, 5) - 1),
             stream |-> Some(SubSeq(s, 5, word_run(s, 5) - 1)),
             end |-> word_run(s, 5)])
  ELSE None

\* the groups all_keys (from position k up to a) and attribute (at a)
match_keys_and_attribute(s, doc, k, a) ==
  Some([doc |-> doc.text, stream |-> doc.stream,
        all_keys |-> SubSeq(s, k, a - 1),
        attribute |-> IF a <= Len(s) /\ s[a] = "@" /\ has_word(s, a + 1)
                      THEN Some(SubSeq(s, a + 1, word_run(s, a + 1) - 1))
                      ELSE None])

match_after_doc(s, doc) ==
  IF doc = None THEN None
  ELSE match_keys_and_attribute(s, doc[1], doc[1].end, keys_run(s, doc[1].end))

\* _bluesky_doc_query_re.match(s): None, or the groups doc, stream, all_keys
\* and attribute of the longest prefix of s the pattern takes
bluesky_doc_query_re(s) ==
  IF ~(Len(s) >= 3 /\ s[1] = "#bluesky" /\ s[2] = "/") THEN None
  ELSE match_after_doc(s, match_doc(s))

\* str.split(sep)
first_index(s, sep) == CHOOSE j \in 1..Len(s) : s[j] = sep /\ \A h \in 1..(j - 1) : s[h] # sep
RECURSIVE split(_, _)
split(s, sep) ==
  IF \A i \in 1..Len(s) : s[i] # sep THEN <<s>>
  ELSE <<SubSeq(s, 1, first_index(s, sep) - 1)>>
       \o split(SubSeq(s, first_index(s, sep) + 1, Len(s)), sep)

\* path_info: the groups of the match, doc cut down to its first segment,
\* and keys, the segments of all_keys after the first (empty) one
path_info_of(groups) ==
  [doc |-> IF groups.doc[1] = "desc" THEN split(groups.doc, "/")[1] ELSE groups.doc,
   stream |-> groups.stream,
   all_keys |-> groups.all_keys,
   keys |-> Tail(split(groups.all_keys, "/")),
   attribute |-> groups.attribute]

parse_match(m, bluesky_document_path) ==
  IF m = None
  THEN [raised |-> "Exception:failed to parse", named |-> bluesky_document_path,
        path_info |-> None]
  ELSE [raised |-> NoError, named |-> <<>>, path_info |-> Some(path_info_of(m[1]))]

\* variant: the empty segment before the first "/" is kept among the keys
keep_first_segment(parse) ==
  IF parse.raised # NoError THEN parse
  ELSE [parse EXCEPT !.path_info =
          Some([parse.path_info[1] EXCEPT !.keys = split(parse.path_info[1].all_keys, "/")])]

parse_keeping_first_segment(bluesky_document_path) ==
  keep_first_segment(parse_match(bluesky_doc_query_re(bluesky_document_path),
                                 bluesky_document_path))

\* _parse_bluesky_document_path
parse_bluesky_document_path(bluesky_document_path) ==
  parse_match(bluesky_doc_query_re(bluesky_document_path), bluesky_document_path)

\* ------------------------------------------------------ container objects
\* The objects of an HDF5 file, by id: groups with named children, datasets
\* with a value, both with attributes.  A hard link is one more name for the
\* id of an object that exists.  Object 1 is the root group.
Object(kind, value) == [kind |-> kind, value |-> value, attrs |-> {}, children |-> {}]
NewFile == [objs |-> <<Object("group", <<>>)>>]
root == 1
has_child(f, g, child_name) == \E c \in f.objs[g].children : c[1] = child_name
child(f, g, child_name) == (CHOOSE c \in f.objs[g].children : c[1] = child_name)[2]

add_object(f, g, child_name, obj) ==
  IF f.objs[g].kind # "group" THEN [file |-> f, raised |-> "TypeError:not a group", id |-> 0]
  ELSE IF has_child(f, g, child_name) THEN [file |-> f, raised |-> "ValueError:exists", id |-> 0]
  ELSE [file |-> [objs |-> [Append(f.objs, obj) EXCEPT ![g].children =
                               @ \cup {<<child_name, Len(f.objs) + 1>>}]],
        raised |-> NoError, id |-> Len(f.objs) + 1]
create_group(f, g, child_name) == add_object(f, g, child_name, Object("group", <<>>))
create_dataset(f, g, child_name, data) == add_object(f, g, child_name, Object("dataset", data))

\* variant: the value of the target is copied into a new dataset
set_copy(f, g, child_name, target) ==
  create_dataset(f, g, child_name, f.objs[target].value)

\* h5_group[name] = obj: a hard link to an object of the file
set_link(f, g, child_name, target) ==
  IF f.objs[g].kind # "group" THEN [file |-> f, raised |-> "TypeError:not a group", id |-> 0]
  ELSE IF has_child(f, g, child_name) THEN [file |-> f, raised |-> "ValueError:exists", id |-> 0]
  ELSE [file |-> [objs |-> [f.objs EXCEPT ![g].children = @ \cup {<<child_name, target>>}]],
        raised |-> NoError, id |-> target]

\* obj.attrs[name] = value
set_attr(f, id, attr_name, value) ==
  [objs |-> [f.objs EXCEPT ![id].attrs =
               {a \in @ : a[1] # attr_name} \cup {<<attr_name, value>>}]]

\* ------------------------------------------------------------- mappings
\* A mapping is the sequence of its (key, value) items in insertion order; a
\* value is a nested mapping or a leaf (a string, as a sequence of tokens).
Leaf(v) == [t |-> "leaf", v |-> v, items |-> <<>>]
Map(items) == [t |-> "map", v |-> <<>>, items |-> items]
has_key(items, k) == \E i \in 1..Len(items) : items[i][1] = k
get(items, k) == items[CHOOSE i \in 1..Len(items) : items[i][1] = k][2]

\* ------------------------------------------------------- link resolution
\* h5_target_group[key] for each key in turn
RECURSIVE descend(_, _, _)
descend(f, id, keys) ==
  IF keys = <<>> THEN [raised |-> NoError, id |-> id]
  ELSE IF f.objs[id].kind # "group" THEN [raised |-> "ValueError:not a group", id |-> 0]
  ELSE IF Len(Head(keys)) # 1 \/ ~has_child(f, id, Head(keys)[1])
  THEN [raised |-> "KeyError", id |-> 0]
  ELSE descend(f, child(f, id, Head(keys)[1]), Tail(keys))

\* variant: the attribute of the path is looked up under the node of the keys
get_h5_group_or_dataset_with_attribute(bluesky_document_path, f) ==
  descend(f, root, <<<<"bluesky">>, bluesky_document_path.doc>> \o bluesky_document_path.keys
                   \o (IF bluesky_document_path.attribute = None THEN <<>>
                       ELSE <<bluesky_document_path.attribute[1]>>))

\* _get_h5_group_or_dataset: h5_file["bluesky"][doc], then the keys
get_h5_group_or_dataset(bluesky_document_path, f) ==
  descend(f, root, <<<<"bluesky">>, bluesky_document_path.doc>> \o bluesky_document_path.keys)

\* ------------------------------------------------------ NeXus materializer
RECURSIVE set_attrs(_, _, _)
set_attrs(f, id, attributes) ==
  IF attributes = <<>> THEN f
  ELSE set_attrs(set_attr(f, id, Head(attributes)[1], Head(attributes)[2].v), id, Tail(attributes))

\* h5_group[nexus_key] = _get_h5_group_or_dataset(_parse_bluesky_document_path(link), file)
bind_target(f, h5_group, nexus_key, target) ==
  IF target.raised # NoError THEN [file |-> f, raised |-> target.raised, id |-> 0]
  ELSE set_link(f, h5_group, nexus_key, target.id)

bind_parsed(f, h5_group, nexus_key, p) ==
  IF p.raised # NoError THEN [file |-> f, raised |-> p.raised, id |-> 0]
  ELSE bind_target(f, h5_group, nexus_key, get_h5_group_or_dataset(p.path_info[1], f))

bind_link(f, h5_group, nexus_key, link) ==
  bind_parsed(f, h5_group, nexus_key, parse_bluesky_document_path(link))

\* _copy_nexus_md_to_nexus_h5: the items of nexus_md in insertion order, up to
\* the first one that raises
RECURSIVE copy_nexus_md_to_nexus_h5(_, _, _)

\* the recursive call on a nested mapping, in the link or group made for it
copy_linked(made, h5_group, nexus_key, nexus_value) ==
  IF made.raised # NoError THEN [file |-> made.file, raised |-> made.raised]
  ELSE copy_nexus_md_to_nexus_h5(made.file, child(made.file, h5_group, nexus_key),
                                 nexus_value.items)

copy_grouped(made, nexus_value) ==
  IF made.raised # NoError THEN [file |-> made.file, raised |-> made.raised]
  ELSE copy_nexus_md_to_nexus_h5(made.file, made.id, nexus_value.items)

outcome(made) == [file |-> made.file, raised |-> made.raised]

\* variant: _attributes is not special, it is written like any other mapping
copy_nexus_item_without_attributes(f, h5_group, nexus_key, nexus_value) ==
  IF nexus_key = "_link" THEN [file |-> f, raised |-> NoError]
  ELSE IF nexus_value.t = "map"
  THEN IF has_key(nexus_value.items, "_link")
       THEN copy_linked(bind_link(f, h5_group, nexus_key, get(nexus_value.items, "_link").v),
                        h5_group, nexus_key, nexus_value)
       ELSE copy_grouped(create_group(f, h5_group, nexus_key), nexus_value)
  ELSE IF nexus_value.v # <<>> /\ nexus_value.v[1] = "#bluesky"
  THEN outcome(bind_link(f, h5_group, nexus_key, nexus_value.v))
  ELSE outcome(create_dataset(f, h5_group, nexus_key, nexus_value.v))

\* one (nexus_key, nexus_value) of the loop
copy_nexus_item(f, h5_group, nexus_key, nexus_value) ==
  IF nexus_key = "_link" THEN [file |-> f, raised |-> NoError]
  ELSE IF nexus_key = "_attributes"
  THEN [file |-> set_attrs(f, h5_group, nexus_value.items), raised |-> NoError]
  ELSE IF nexus_value.t = "map"
  THEN IF has_key(nexus_value.items, "_link")
       THEN copy_linked(bind_link(f, h5_group, nexus_key, get(nexus_value.items, "_link").v),
                        h5_group, nexus_key, nexus_value)
       ELSE copy_grouped(create_group(f, h5_group, nexus_key), nexus_value)
  ELSE IF nexus_value.v # <<>> /\ nexus_value.v[1] = "#bluesky"
  THEN outcome(bind_link(f, h5_group, nexus_key, nexus_value.v))
  ELSE outcome(create_dataset(f, h5_group, nexus_key, nexus_value.v))

copy_nexus_rest(done, h5_group, nexus_md_items) ==
  IF done.raised # NoError THEN done
  ELSE copy_nexus_md_to_nexus_h5(done.file, h5_group, nexus_md_items)

copy_nexus_md_to_nexus_h5(f, h5_group, nexus_md_items) ==
  IF nexus_md_items = <<>> THEN [file |-> f, raised |-> NoError]
  ELSE copy_nexus_rest(copy_nexus_item(f, h5_group, Head(nexus_md_items)[1],
                                       Head(nexus_md_items)[2]),
                       h5_group, Tail(nexus_md_items))

\* -------------------------------------------------------- metadata writer
\* Values of a document besides strings (Leaf) and nested mappings (Map):
\* None, bytes, int (by its digits), list and tuple.  "NUL" is the null character.
NoneValue == [t |-> "none", v |-> <<>>, items |-> <<>>]
Bytes(b) == [t |-> "bytes", v |-> b, items |-> <<>>]
Integer(n) == [t |-> "int", v |-> <<n>>, items |-> <<>>]
List(xs) == [t |-> "list", v |-> <<>>, items |-> xs]
Tuple(xs) == [t |-> "tuple", v |-> <<>>, items |-> xs]

\* variant: None and the null byte are written as they come
no_special_case(value) == value

\* if value is None: value = "None"; elif value == b"\x00": value = ""
special_case(value) ==
  IF value.t = "none" THEN Leaf(<<"None">>)
  ELSE IF value = Bytes(<<"NUL">>) THEN Leaf(<<>>)
  ELSE value

\* isinstance(value, str) or (isinstance(value, Sequence) and all(isinstance(x, str) ...))
all_of(value, t) == \A i \in 1..Len(value.items) : value.items[i].t = t
is_str_or_strs(value) ==
  \/ value.t = "leaf"
  \/ value.t \in {"list", "tuple"} /\ all_of(value, "leaf")
  \/ value = Bytes(<<>>)

\* the data of np.array(value, dtype=h5py.string_dtype()) and of a numeric array
texts(value) == [i \in 1..Len(value.items) |-> value.items[i].v]
numbers(value) == [i \in 1..Len(value.items) |-> value.items[i].v[1]]
has_null(text) == \E i \in 1..Len(text) : text[i] = "NUL"

\* h5_group.create_dataset(name=key, data=np.array(value, dtype=h5py.string_dtype())):
\* a variable-length string may not hold a null character
create_string_dataset(f, h5_group, key, value) ==
  IF value.t = "leaf"
  THEN IF has_null(value.v)
       THEN [file |-> f, raised |-> "ValueError:embedded NULLs", id |-> 0]
       ELSE create_dataset(f, h5_group, key, string_array(value.v))
  ELSE IF \E i \in 1..Len(value.items) : has_null(value.items[i].v)
  THEN [file |-> f, raised |-> "ValueError:embedded NULLs", id |-> 0]
  ELSE create_dataset(f, h5_group, key, string_array(texts(value)))

\* h5_group.create_dataset(name=key, data=value): numbers, bytes and
\* sequences of numbers have a native type, anything else is rejected
create_native_dataset(f, h5_group, key, value) ==
  IF value.t = "int" THEN create_dataset(f, h5_group, key, <<"i8", value.v[1]>>)
  ELSE IF value.t = "bytes" THEN create_dataset(f, h5_group, key, <<"S", value.v>>)
  ELSE IF value.t \in {"list", "tuple"} /\ all_of(value, "int")
  THEN create_dataset(f, h5_group, key, <<"i8", numbers(value)>>)
  ELSE [file |-> f, raised |-> "TypeError:no native equivalent", id |-> 0]

\* the try block
try_create_dataset(f, h5_group, key, value) ==
  IF is_str_or_strs(value) THEN create_string_dataset(f, h5_group, key, value)
  ELSE create_native_dataset(f, h5_group, key, value)

\* variant: a TypeError is raised to the caller like any other failure
reraise(tried, f, h5_group, key, value) == outcome(tried)

\* except TypeError: store json.dumps(value); except BaseException: raise
except_clauses(tried, f, h5_group, key, value) ==
  IF tried.raised = "TypeError:no native equivalent"
  THEN outcome(create_dataset(f, h5_group, key, string_array(json_dumps(value))))
  ELSE outcome(tried)

\* the else branch of the loop: a value that is not a mapping
copy_metadata_leaf(f, h5_group, key, value) ==
  except_clauses(try_create_dataset(f, h5_group, key, value), f, h5_group, key, value)

\* _copy_metadata_to_h5_datasets: the items of a_mapping in insertion order,
\* up to the first one that raises
RECURSIVE copy_metadata_to_h5_datasets(_, _, _)

\* the recursive call in the group created for a nested mapping
copy_metadata_group(made, value) ==
  IF made.raised # NoError THEN outcome(made)
  ELSE copy_metadata_to_h5_datasets(made.file, made.id, value.items)

copy_metadata_item(f, h5_group, key, value) ==
  IF value.t = "map" THEN copy_metadata_group(create_group(f, h5_group, key), value)
  ELSE copy_metadata_leaf(f, h5_group, key, special_case(value))

copy_metadata_rest(done, h5_group, items) ==
  IF done.raised # NoError THEN done
  ELSE copy_metadata_to_h5_datasets(done.file, h5_group, items)

copy_metadata_to_h5_datasets(f, h5_group, items) ==
  IF items = <<>> THEN [file |-> f, raised |-> NoError]
  ELSE copy_metadata_rest(copy_metadata_item(f, h5_group, Head(items)[1], Head(items)[2]),
                          h5_group, Tail(items))

\* ----------------------------------------------------------------- specs
NoHistory == [data |-> <<>>, timestamps |-> <<>>, events |-> 0, pages |-> 0]

InitSerializer ==
  /\ scope = "in"
  /\ start_doc = None
  /\ descriptors = {}
  /\ output_filepath = None
  /\ h5_output_file = None
  /\ h5_open = FALSE
  /\ h5 = EmptyFile
  /\ name = "none"
  /\ raised = NoError
  /\ raised_at = 0
  /\ propagated = NoError
  /\ close_calls = 0
  /\ releases = 0
  /\ seq_num = 0
  /\ supplied = [s \in Streams |-> [f \in Fields |-> NoHistory]]
  /\ clean = Streams \X Fields

InitLinksIdle ==
  /\ address = <<>>
  /\ intended = None
  /\ nexus_md = <<>>
  /\ h5_file = NewFile
  /\ parsed = None
  /\ resolved = None
  /\ materialized = None
  /\ a_mapping = <<>>
  /\ copied = None

InitReconciler ==
  /\ rc_shape = <<>>
  /\ rc_event_shape = <<>>
  /\ rc_raised = NoError
  /\ rc_runs = 0
  /\ rc_history = <<>>

\* events of an event_page for the next sequence number
EventPages(DD, KS, K, TSK, UF, OBS) ==
  {EventPageDoc(seq_num + 1, d, ks, k, tsk, unfilled, obs) :
     d \in DD, ks \in KS, k \in K, tsk \in TSK, unfilled \in UF, obs \in OBS}

\* The run life cycle: every start document, file prefix and driver, one
\* scalar stream.
LifecycleDescriptorDocs ==
  {doc \in DescriptorDocs : doc.uid = "d1" /\ doc.name = "primary" /\ ~doc.data_keys.image.declared}
LifecycleEventPages ==
  EventPages({"d1"}, {<<"en_energy">>}, 1..MaxPage, {1}, {{}, {"en_energy"}}, {<<2, 3>>})

Init ==
  /\ mode \in {"export", "router"}
  /\ file_prefix \in Prefixes
  /\ kwargs \in Settings
  /\ InitSerializer
  /\ InitRunsIdle
  /\ InitReconciler
  /\ InitLinksIdle

Next ==
  \/ \E doc \in StartDocs : Start(doc)
  \/ \E doc \in LifecycleDescriptorDocs : Descriptor(doc)
  \/ \E doc \in LifecycleEventPages : EventPage(doc)
  \/ Stop
  \/ Exit

Spec == Init /\ [][Next]_vars

\* The streaming appender: one run driven by export, every descriptor
\* and every event_page.
AppenderStartDocs == {doc \in StartDocs : doc.uid = "u1" /\ doc.sample_name = None /\ doc.techniques = None}
AppenderDescriptorDocs ==
  {doc \in DescriptorDocs :
     /\ doc.run_start = "u1"
     /\ doc.uid = "d1" => doc.name = "primary"
     /\ doc.uid = "d2" => ~doc.data_keys.image.declared}
AppenderEventPages ==
  EventPages(DescUids, KeyOrders, 1..MaxPage, 1..MaxPage, Unfilled, ObservedShapes)

InitAppender ==
  /\ mode = "export"
  /\ file_prefix = "{uid}-"
  /\ kwargs = {}
  /\ InitSerializer
  /\ InitRunsIdle
  /\ InitReconciler
  /\ InitLinksIdle

NextAppender ==
  \/ \E doc \in AppenderStartDocs : Start(doc)
  \/ \E doc \in AppenderDescriptorDocs : Descriptor(doc)
  \/ \E doc \in AppenderEventPages : EventPage(doc)
  \/ Stop
  \/ Exit

SpecAppender == InitAppender /\ [][NextAppender]_vars


\* The shape reconciler on its own: a stored declared shape, the shape of
\* the observed sample, and repeated runs of the check on the stored shape.
MaxRuns == 2
ReconcilerEventShapes == SeqsUpTo(Dims, MaxRank) \ {<<>>}
\* declared shapes: empty, axes followed by the placeholder 0, or the
\* placeholder first (the form the correction writes)
ReconcilerShapes ==
  {<<>>} \cup {Append(sh, 0) : sh \in ReconcilerEventShapes}
         \cup {<<0>> \o sh : sh \in ReconcilerEventShapes}

InitShapes ==
  /\ mode = "router"
  /\ file_prefix = "{uid}-"
  /\ kwargs = {}
  /\ InitSerializer
  /\ InitRunsIdle
  /\ rc_shape \in ReconcilerShapes
  /\ rc_event_shape \in ReconcilerEventShapes
  /\ rc_raised = NoError
  /\ rc_runs = 0
  /\ rc_history = <<>>
  /\ InitLinksIdle

Reconcile ==
  /\ rc_runs < MaxRuns
  /\ LET r == check_and_correct_h5_descriptor_array_shape(rc_shape, rc_event_shape)
     IN /\ rc_shape' = r.shape
        /\ rc_raised' = r.raised
        /\ rc_history' = Append(rc_history, [before |-> rc_shape, after |-> r.shape, raised |-> r.raised])
  /\ rc_runs' = rc_runs + 1
  /\ UNCHANGED <<rc_event_shape, main_vars, pl_vars, rn_vars>>

NextShapes == Reconcile

SpecShapes == InitShapes /\ [][NextShapes]_vars


\* Links on their own: the container of a finished run (start, one
\* descriptor for the stream "primary", stop), a bluesky document path, and
\* a NeXus payload that refers to it; the path is parsed, resolved, and the
\* payload is materialized at the top level of the container.
MaxKeys == 2
\* The nodes Serializer.start, Serializer.descriptor and the stop metadata of
\* Serializer.stop create on a new file, in the order of creation: the parent
\* (by position in this list), the name, and the value of a dataset.
Group(parent, child_name) == [parent |-> parent, name |-> child_name, kind |-> "group", value |-> <<>>]
Dataset(parent, child_name, value) == [parent |-> parent, name |-> child_name, kind |-> "dataset", value |-> value]
RunNodes ==
  <<Group(0, "/"),
    Group(1, "bluesky"),
    Group(2, "start"),
    Dataset(3, "uid", <<"u1">>),
    Dataset(3, "sample_name", <<"s">>),
    Group(2, "descriptors"),
    Group(2, "events"),
    Group(2, "stop"),
    Group(6, "primary"),
    Dataset(9, "uid", <<"d1">>),
    Dataset(9, "name", <<"primary">>),
    Group(9, "data_keys"),
    Group(12, "en_energy"),
    Dataset(13, "dtype", <<"number">>),
    Dataset(13, "units", <<"eV">>),
    Group(7, "primary"),
    Group(16, "data"),
    Group(16, "timestamps"),
    Dataset(8, "uid", <<"s1">>),
    Dataset(8, "time", <<"1600000000.0">>)>>
RunFile ==
  [objs |-> [i \in 1..Len(RunNodes) |->
               [kind |-> RunNodes[i].kind, value |-> RunNodes[i].value, attrs |-> {},
                children |-> {<<RunNodes[j].name, j>> :
                                j \in {k \in 1..Len(RunNodes) : RunNodes[k].parent = i}}]]]

KeyWords == {"uid", "time", "data_keys"}
Selectors ==
  {[doc |-> <<"start">>, stream |-> None], [doc |-> <<"stop">>, stream |-> None],
   [doc |-> <<"desc">>, stream |-> Some(<<"primary">>)]}
Intentions ==
  {[doc |-> sel.doc, stream |-> sel.stream, keys |-> ks, attribute |-> at] :
     sel \in Selectors, ks \in SeqsUpTo({<<w>> : w \in KeyWords}, MaxKeys),
     at \in {None, Some(<<"units">>)}}

\* the address written from its parts
RECURSIVE join(_)
join(keys) == IF keys = <<>> THEN <<>> ELSE <<"/">> \o Head(keys) \o join(Tail(keys))
render(c) ==
  <<"#bluesky", "/">> \o c.doc
  \o (IF c.stream = None THEN <<>> ELSE <<"/">> \o c.stream[1])
  \o join(c.keys)
  \o (IF c.attribute = None THEN <<>> ELSE <<"@">> \o c.attribute[1])

\* addresses: the well-formed ones, and those with one token more or less
Slips == {"-", "/", "@", "uid", "#bluesky"}
insert(s, i, t) == SubSeq(s, 1, i) \o <<t>> \o SubSeq(s, i + 1, Len(s))
remove(s, i) == SubSeq(s, 1, i - 1) \o SubSeq(s, i + 1, Len(s))
Addresses(c) ==
  {render(c)}
  \cup {insert(render(c), i, t) : i \in 0..Len(render(c)), t \in Slips}
  \cup {remove(render(c), i) : i \in 1..Len(render(c))}

\* payloads: the address as the value of an entry, as the _link of a nested
\* mapping with _attributes beside it, beside a leaf and a subgroup of the
\* same group, and as the _link of a nested mapping with a leaf beside it
NXAttributes(attr_name, value) == <<"_attributes", Map(<<<<attr_name, Leaf(<<value>>)>>>>)>>
Payloads(link) ==
  {<<<<"entry", Map(<<NXAttributes("NX_Class", "NXEntry"),
                      <<"name", Leaf(link)>>>>)>>>>,
   <<<<"entry", Map(<<NXAttributes("NX_Class", "NXEntry"),
                      <<"name", Map(<<NXAttributes("NDAttrName", "Name"),
                                      <<"_link", Leaf(link)>>>>)>>>>)>>>>,
   <<<<"entry", Map(<<NXAttributes("NX_Class", "NXEntry"),
                      <<"program_name", Leaf(<<"EPICS">>)>>,
                      <<"instrument", Map(<<NXAttributes("NX_Class", "NXInstrument"),
                                            <<"detector", Leaf(<<"Pilatus">>)>>>>)>>,
                      <<"name", Leaf(link)>>>>)>>>>,
   <<<<"entry", Map(<<<<"name", Map(<<<<"_link", Leaf(link)>>,
                                      <<"note", Leaf(<<"raw">>)>>>>)>>>>)>>>>}

InitLinks ==
  /\ mode = "router"
  /\ file_prefix = "{uid}-"
  /\ kwargs = {}
  /\ InitSerializer
  /\ InitRunsIdle
  /\ InitReconciler
  /\ \E c \in Intentions :
       /\ address \in Addresses(c)
       /\ intended = IF address = render(c) THEN Some(c) ELSE None
  /\ nexus_md \in Payloads(address)
  /\ h5_file = RunFile
  /\ parsed = None
  /\ resolved = None
  /\ materialized = None
  /\ a_mapping = <<>>
  /\ copied = None

\* _parse_bluesky_document_path(address)
ParseAddress ==
  /\ parsed = None
  /\ parsed' = Some(parse_bluesky_document_path(address))
  /\ UNCHANGED <<address, intended, nexus_md, h5_file, resolved, materialized, a_mapping, copied, main_vars, rc_vars, rn_vars>>

\* _get_h5_group_or_dataset(path_info, h5_file)
ResolveAddress ==
  /\ parsed # None
  /\ parsed[1].raised = NoError
  /\ resolved = None
  /\ resolved' = Some(get_h5_group_or_dataset(parsed[1].path_info[1], h5_file))
  /\ UNCHANGED <<address, intended, nexus_md, h5_file, parsed, materialized, a_mapping, copied, main_vars, rc_vars, rn_vars>>

\* _copy_nexus_md_to_nexus_h5(nexus_md, h5_file)
Materialize ==
  /\ materialized = None
  /\ LET r == copy_nexus_md_to_nexus_h5(h5_file, root, nexus_md)
     IN /\ h5_file' = r.file
        /\ materialized' = Some(r.raised)
  /\ UNCHANGED <<address, intended, nexus_md, parsed, resolved, a_mapping, copied, main_vars, rc_vars, rn_vars>>

NextLinks ==
  \/ ParseAddress
  \/ ResolveAddress
  \/ Materialize

SpecLinks == InitLinks /\ [][NextLinks]_vars


\* Element types: one run driven by export, one stream whose field en_energy
\* is declared with each category and whose field image is an array, and
\* pages whose samples have each element type (values of en_energy that are
\* integers or text).
Categories == {"string", "number", "integer", "boolean"}
SampleDtypes == {"u4", "f4"}
ScalarDtypes == {"i8", "U"}
Declared(category) == [declared |-> TRUE, dtype |-> category, shape |-> <<>>]
DtypeDescriptorDocs ==
  {[uid |-> "d1", run_start |-> "u1", name |-> "primary",
    data_keys |-> [en_energy |-> Declared(category), image |-> img]] :
     category \in Categories, img \in {Undeclared, Array(<<2, 3, 0>>)}}
DtypeEventPages ==
  {[page EXCEPT !.dtype = [f \in Fields |-> IF f = "image" THEN dt ELSE sdt]] :
     page \in EventPages({"d1"}, KeyOrders, 1..MaxPage, {1}, {{}}, ObservedShapes),
     dt \in SampleDtypes, sdt \in ScalarDtypes}

NextDtypes ==
  \/ \E doc \in AppenderStartDocs : Start(doc)
  \/ \E doc \in DtypeDescriptorDocs : Descriptor(doc)
  \/ \E doc \in DtypeEventPages : EventPage(doc)
  \/ Stop
  \/ Exit

SpecDtypes == InitAppender /\ [][NextDtypes]_vars


\* Paging: one run driven by export whose stream "primary" receives, per
\* field, the events 1, 2, 3, ... of that field in order, split into
\* event_pages of any sizes; an event is a value, a timestamp and, for an
\* array, the element type of its sample.  (An event document is delivered
\* as an event_page of one event.)
event_value(e) == 100 + e
event_stamp(e) == 1000 + e
event_dtype(e) == IF e % 2 = 1 THEN "u4" ELSE "f4"
\* the event_page number n that names the fields ks and carries, for each
\* field f, the k events that follow the first[f] events delivered before
PageOfEvents(n, ks, first, k) ==
  [seq_num |-> n, descriptor |-> "d1", keys |-> ks,
   data |-> [f \in Fields |-> [i \in 1..k |-> event_value(first[f] + i)]],
   timestamps |-> [f \in Fields |-> [i \in 1..k |-> event_stamp(first[f] + i)]],
   filled |-> [f \in Fields |-> TRUE],
   shape |-> [f \in Fields |-> IF f = "image" THEN <<2, 3>> ELSE <<>>],
   dtype |-> [f \in Fields |-> event_dtype(first[f] + 1)]]
PagingDescriptorDocs == {doc \in DescriptorDocs : doc.uid = "d1" /\ doc.run_start = "u1" /\ doc.name = "primary"}
PagingEventPages ==
  {PageOfEvents(seq_num + 1, ks, [f \in Fields |-> supplied["primary"][f].events], k) :
     ks \in KeyOrders, k \in 1..MaxPage}

NextPaging ==
  \/ \E doc \in AppenderStartDocs : Start(doc)
  \/ \E doc \in PagingDescriptorDocs : Descriptor(doc)
  \/ \E doc \in PagingEventPages : EventPage(doc)
  \/ Stop
  \/ Exit

SpecPaging == InitAppender /\ [][NextPaging]_vars


\* Two runs: two Serializer instances in one directory, each called with the
\* documents of its own run in order (start, descriptor, event_pages,
\* stop), the calls of the two interleaved in every way.
kinds_of(i) == {delivered[i][j][1] : j \in 1..Len(delivered[i])}
pages_of(i) == Cardinality({j \in 1..Len(delivered[i]) : delivered[i][j][1] = "event_page"})
RunStartDocs(i) == {doc \in StartDocs : doc.uid = RunUid[i] /\ doc.sample_name = None}
RunDescriptorDocs(i) ==
  {doc \in DescriptorDocs :
     /\ doc.uid = RunDescUid[i] /\ doc.run_start = RunUid[i] /\ doc.name = "primary"
     /\ ~doc.data_keys.image.declared}
RunEventPages(i) ==
  {EventPageDoc(10 * i + pages_of(i) + 1, RunDescUid[i], <<"en_energy">>, k, k, {}, <<2, 3>>) :
     k \in 1..MaxPage}

InitRuns ==
  /\ mode = "router"
  /\ file_prefix = "{uid}-"
  /\ kwargs = {}
  /\ InitSerializer
  /\ InitReconciler
  /\ InitLinksIdle
  /\ serializers = [i \in Runs |-> NewSerializer]
  /\ disk = NoFiles
  /\ delivered = [i \in Runs |-> <<>>]

Deliver(i, kind, doc) ==
  /\ serializers' = [serializers EXCEPT ![i] = Serializer_call(serializers[i], disk, kind, doc).self]
  /\ disk' = Serializer_call(serializers[i], disk, kind, doc).disk
  /\ delivered' = [delivered EXCEPT ![i] = Append(@, <<kind, doc>>)]
  /\ UNCHANGED <<main_vars, rc_vars, pl_vars>>

RunStart(i) ==
  /\ delivered[i] = <<>>
  /\ \E doc \in RunStartDocs(i) : Deliver(i, "start", doc)
RunDescriptor(i) ==
  /\ "start" \in kinds_of(i) /\ kinds_of(i) \cap {"descriptor", "stop"} = {}
  /\ \E doc \in RunDescriptorDocs(i) : Deliver(i, "descriptor", doc)
RunEventPage(i) ==
  /\ "descriptor" \in kinds_of(i) /\ "stop" \notin kinds_of(i)
  /\ pages_of(i) < MaxPages
  /\ \E doc \in RunEventPages(i) : Deliver(i, "event_page", doc)
RunStop(i) ==
  /\ "start" \in kinds_of(i) /\ "stop" \notin kinds_of(i)
  /\ Deliver(i, "stop", [uid |-> "stop"])

NextRuns ==
  \/ \E i \in Runs : RunStart(i)
  \/ \E i \in Runs : RunDescriptor(i)
  \/ \E i \in Runs : RunEventPage(i)
  \/ \E i \in Runs : RunStop(i)

SpecRuns == InitRuns /\ [][NextRuns]_vars


\* The metadata writer on its own: a document of up to MaxItems keys is
\* copied into the root group of a new container.
MaxItems == 2
MetadataKeys == {"plan_name", "hints", "detectors"}
LeafValues ==
  {NoneValue, Bytes(<<"NUL">>), Bytes(<<"a", "NUL">>), Integer("7"),
   Leaf(<<"scan">>), Leaf(<<>>), Leaf(<<"a", "NUL">>),
   List(<<>>), List(<<Leaf(<<"det1">>), Leaf(<<"det2">>)>>), Tuple(<<Leaf(<<"det1">>)>>),
   List(<<Integer("1"), Integer("2")>>),
   List(<<Leaf(<<"time">>), Integer("1")>>),
   List(<<Map(<<<<"technique", Leaf(<<"SAXS">>)>>>>)>>)}
NestedValues ==
  {Map(<<>>)} \cup {Map(<<<<"fields", v>>>>) :
                     v \in {NoneValue, Leaf(<<"scan">>), Leaf(<<"a", "NUL">>),
                            List(<<Leaf(<<"time">>), Integer("1")>>)}}
Mappings ==
  {m \in SeqsUpTo(MetadataKeys \X (LeafValues \cup NestedValues), MaxItems) :
     \A i, j \in 1..Len(m) : i # j => m[i][1] # m[j][1]}

InitMetadata ==
  /\ mode = "router"
  /\ file_prefix = "{uid}-"
  /\ kwargs = {}
  /\ InitSerializer
  /\ InitRunsIdle
  /\ InitReconciler
  /\ address = <<>>
  /\ intended = None
  /\ nexus_md = <<>>
  /\ h5_file = NewFile
  /\ parsed = None
  /\ resolved = None
  /\ materialized = None
  /\ a_mapping \in Mappings
  /\ copied = None

\* _copy_metadata_to_h5_datasets(a_mapping, h5_group)
CopyMetadata ==
  /\ copied = None
  /\ h5_file' = copy_metadata_to_h5_datasets(h5_file, root, a_mapping).file
  /\ copied' = Some(copy_metadata_to_h5_datasets(h5_file, root, a_mapping).raised)
  /\ UNCHANGED <<address, intended, nexus_md, parsed, resolved, materialized, a_mapping,
                 main_vars, rc_vars, rn_vars>>

NextMetadata == CopyMetadata

SpecMetadata == InitMetadata /\ [][NextMetadata]_vars


\* ================================================================ claims
has_data(s, f) == h5.data[s][f] # None
has_timestamps(s, f) == h5.timestamps[s][f] # None
data_rows(h, s, f) == h.data[s][f][1].rows
timestamp_rows(h, s, f) == h.timestamps[s][f][1]
keys_of(doc) == {doc.keys[i] : i \in 1..Len(doc.keys)}
\* the handler got past the data_key at position i of the page
processed(r, i) == r.raised = NoError \/ r.at > i
\* the handler got to the data_key at position i of the page
reached(r, i) == r.raised = NoError \/ r.at >= i
Deliverable == CanDeliver /\ seq_num < MaxPages

\* C1: for every stream and field, after N event_pages processed whole, each
\* contributing k_i >= 1 values and k_i timestamps, the field's value rows and
\* timestamp rows both have length k_1 + ... + k_N and equal, in arrival
\* order, the concatenation of the values and of the timestamps of the pages.
C1_AppendMonotonicity ==
  \A s \in Streams, f \in Fields :
    (<<s, f>> \in clean /\ supplied[s][f].pages >= 1) =>
      /\ has_data(s, f) /\ has_timestamps(s, f)
      /\ Len(data_rows(h5, s, f)) = supplied[s][f].events
      /\ Len(timestamp_rows(h5, s, f)) = supplied[s][f].events
      /\ data_rows(h5, s, f) = supplied[s][f].data
      /\ timestamp_rows(h5, s, f) = supplied[s][f].timestamps

C1_Witness ==
  \E s \in Streams, f \in Fields :
    /\ <<s, f>> \in clean
    /\ supplied[s][f].pages = MaxPages
    /\ supplied[s][f].events > MaxPages
    /\ raised = NoError

\* C2: after every event_page processed without raising, every field that
\* has value storage has timestamp storage of the same length.
C2_EqualLengths ==
  (name = "event_page" /\ raised = NoError) =>
    \A s \in Streams, f \in Fields :
      has_data(s, f) =>
        /\ has_timestamps(s, f)
        /\ Len(data_rows(h5, s, f)) = Len(timestamp_rows(h5, s, f))

\* C3: an event_page carrying k events for a field whose value and timestamp
\* storage both have length L grows both to exactly L + k, writes the page's
\* rows at L+1..L+k and leaves rows 1..L as they were.
C3_AppendOnly ==
  \A doc \in AppenderEventPages :
    Deliverable =>
      LET r == event_page(doc) IN
      \A i \in 1..Len(doc.keys) :
        processed(r, i) =>
          LET s == get_stream_name(doc)
              f == doc.keys[i]
              k == Len(doc.data[f])
          IN (/\ has_data(s, f) /\ has_timestamps(s, f)
              /\ Len(data_rows(h5, s, f)) = Len(timestamp_rows(h5, s, f))
              /\ Len(doc.timestamps[f]) = k) =>
               LET L == Len(data_rows(h5, s, f))
                   rows == data_rows(r.h5, s, f)
                   stamps == timestamp_rows(r.h5, s, f)
               IN /\ Len(rows) = L + k
                  /\ Len(stamps) = L + k
                  /\ SubSeq(rows, 1, L) = data_rows(h5, s, f)
                  /\ SubSeq(stamps, 1, L) = timestamp_rows(h5, s, f)
                  /\ SubSeq(rows, L + 1, L + k) = doc.data[f]
                  /\ SubSeq(stamps, L + 1, L + k) = doc.timestamps[f]

C3_Witness ==
  /\ name = "event_page"
  /\ raised = NoError
  /\ \E s \in Streams, f \in Fields :
       /\ has_data(s, f) /\ has_timestamps(s, f)
       /\ supplied[s][f].pages = 2
       /\ Len(data_rows(h5, s, f)) = 2 * MaxPage
       /\ data_rows(h5, s, f) = supplied[s][f].data
       /\ Len(timestamp_rows(h5, s, f)) = 2 * MaxPage

\* C4: an event_page that marks any of its fields as not filled makes the
\* handler raise, and when it raises no storage of any field the page names
\* has been created, resized or written, wherever the unfilled field stands
\* among the page's fields.
C4_UnfilledRejectedFirst ==
  [][/\ \A doc \in AppenderEventPages :
          (Deliverable /\ \E f \in keys_of(doc) : ~doc.filled[f]) =>
            event_page(doc).raised # NoError
     /\ (name' = "event_page" /\ scope' = scope /\ raised' = "ValueError:unfilled") =>
          (h5'.data = h5.data /\ h5'.timestamps = h5.timestamps)]_vars

\* C5: on the first event_page for a field declared "array" whose declared
\* shape has neither its leading two axes equal to the sample's shape nor its
\* leading axes (all but the trailing placeholder) in the reverse order of the
\* sample's shape, the handler raises the shape error, no value or timestamp
\* storage exists for the field afterwards, and the stored declared shape is
\* unchanged.
leading_two(shape) == [i \in 1..(IF Len(shape) >= 2 THEN 2 ELSE Len(shape)) |-> shape[i]]
leading(shape) == [i \in 1..(IF Len(shape) = 0 THEN 0 ELSE Len(shape) - 1) |-> shape[i]]
in_reverse(shape) == [i \in 1..Len(shape) |-> shape[Len(shape) + 1 - i]]
Irreconcilable(declared, observed) ==
  leading_two(declared) # observed /\ in_reverse(leading(declared)) # observed

C5_IrreconcilableShapeRejected ==
  \A doc \in AppenderEventPages :
    Deliverable =>
      LET r == event_page(doc) IN
      \A i \in 1..Len(doc.keys) :
        reached(r, i) =>
          LET s == get_stream_name(doc)
              f == doc.keys[i]
              info == h5.descriptors[s][1].data_keys[f]
          IN (/\ doc.filled[f] /\ info.declared /\ info.dtype = "array"
              /\ ~has_data(s, f)
              /\ Irreconcilable(info.shape, doc.shape[f])) =>
               /\ r.raised = "ValueError:shape" /\ r.at = i
               /\ r.h5.data[s][f] = None
               /\ r.h5.timestamps[s][f] = None
               /\ r.h5.descriptors[s][1].data_keys[f].shape = info.shape

C5_Witness ==
  /\ name = "event_page"
  /\ raised = "ValueError:shape"
  /\ raised_at = 2
  /\ \E s \in Streams :
       /\ h5.descriptors[s] # None
       /\ h5.descriptors[s][1].data_keys.image.shape = <<3, 3, 0>>
       /\ ~has_data(s, "image") /\ ~has_timestamps(s, "image")
       /\ has_data(s, "en_energy")


\* ------------------------------------------------------------------------
\* C6: shape reconciliation is idempotent: when the declared shape's leading
\* two axes are the reverse of the sample's shape, the shape stored after the
\* correction is the reverse of the original, and running the reconciler
\* again on the corrected shape with a sample of the same shape changes
\* nothing and raises nothing.
C6_ReconcileIdempotent ==
  (/\ rc_runs >= 2
   /\ Len(rc_history[1].before) >= 2
   /\ in_reverse(leading_two(rc_history[1].before)) = rc_event_shape
   /\ leading_two(rc_history[1].before) # rc_event_shape) =>
     /\ rc_history[1].raised = NoError
     /\ rc_history[1].after = in_reverse(rc_history[1].before)
     /\ rc_history[2].raised = NoError
     /\ rc_history[2].after = rc_history[2].before


\* ------------------------------------------------------------------------
\* C7: for every document sequence fed to a serializer inside its scope in
\* which start opened the container, however the sequence ends (with stop,
\* without stop, or with a document that raises), the container is closed
\* once the scope has been left and the error raised inside the scope is the
\* error that reaches the caller.
C7_ClosedOnScopeExit ==
  (mode = "export" /\ scope = "out" /\ h5_output_file # None) =>
    (~h5_open /\ propagated = raised)

C7_Witness ==
  /\ mode = "export" /\ scope = "out" /\ h5_output_file # None
  /\ h5.stop = None
  /\ name = "event_page"
  /\ propagated = "ValueError:unfilled"

templated(doc) == IF file_prefix = "{uid}-" THEN doc.uid ELSE doc.sample_name[1]
artifacts_of_run ==
  /\ start_doc = None => "raised" \in DOMAIN artifacts
  /\ h5_output_file # None =>
       /\ DOMAIN artifacts = {"stream_data"}
       /\ Len(artifacts.stream_data) = 1
       /\ artifacts.stream_data[1] = <<"directory", <<templated(h5.start[1]), "-">>, ".h5">>

C9_Artifacts ==
  [][/\ artifacts_of_run
     /\ artifacts_of_run'
     /\ h5_output_file # None => artifacts' = artifacts]_vars

C9_Witness ==
  /\ h5_output_file # None
  /\ ~h5_open
  /\ name = "start" /\ raised = "EventModelValueError"
  /\ artifacts.stream_data = <<<<"directory", <<"s", "-">>, ".h5">>>>

\* C10: the life cycle of an instance only moves forward
\* UNSTARTED -> STARTED -> STREAMING -> STOPPED and covers one run: a start
\* delivered in any state but UNSTARTED, and a descriptor, event_page or stop
\* delivered in UNSTARTED, is rejected with an error and opens, truncates or
\* modifies no container.
lifecycle ==
  IF start_doc = None THEN 0                              \* UNSTARTED
  ELSE IF h5.stop # None THEN 3                           \* STOPPED
  ELSE IF \E s \in Streams : h5.descriptors[s] # None THEN 2   \* STREAMING
  ELSE 1                                                  \* STARTED
container == <<output_filepath, h5_output_file, h5_open, h5>>
delivers(kinds) == name' \in kinds /\ scope' = scope

C10_Lifecycle ==
  [][/\ lifecycle' >= lifecycle
     /\ (delivers({"start"}) /\ lifecycle # 0) =>
          (raised' # NoError /\ container' = container /\ start_doc' = start_doc)
     /\ (delivers({"descriptor", "event_page", "stop"}) /\ h5_output_file = None) =>
          (raised' # NoError /\ container' = container /\ lifecycle' = lifecycle)]_vars

C10_Witness ==
  /\ lifecycle = 3
  /\ name = "start" /\ raised = "EventModelValueError"
  /\ mode = "router"
  /\ seq_num > 0

\* ------------------------------------------------------------------------
\* C11: after a stop document has been processed without raising, every
\* further document delivered to the same instance (start, descriptor,
\* event_page or stop) is rejected with an error and leaves the contents of
\* the closed container as they were.
stopped == h5_output_file # None /\ h5.stop # None /\ ~h5_open
C11_InertAfterStop ==
  [][(stopped /\ delivers({"start", "descriptor", "event_page", "stop"})) =>
       (raised' # NoError /\ h5' = h5 /\ ~h5_open' /\ output_filepath' = output_filepath)]_vars

C11_Witness ==
  /\ stopped
  /\ scope = "in"
  /\ name = "event_page"
  /\ raised = "ValueError:closed"
  /\ get_descriptor([descriptor |-> "d1"]) # {}

\* C12: from the moment start has been processed and in every later state
\* the bluesky group has exactly the four children start, descriptors,
\* events and stop; right after start the descriptors, events and stop
\* sections are empty and the start section holds one leaf per key of the
\* start document with the document's value (md as a nested group).
mirrors_start(section, doc) ==
  /\ section.uid = doc.uid
  /\ section.sample_name = doc.sample_name
  /\ (section.md = None) <=> (doc.techniques = None)
  /\ section.md # None =>
       /\ DOMAIN section.md[1] = {"techniques"}
       /\ section.md[1].techniques[2] = doc.techniques[1]

C12_FourSections ==
  [][/\ h5_output_file' # None =>
          /\ h5'.groups = {"start", "descriptors", "events", "stop"}
          /\ h5'.start # None
     /\ (delivers({"start"}) /\ raised' = NoError) =>
          /\ h5'.descriptors = [s \in Streams |-> None]
          /\ h5'.events = {}
          /\ h5'.data = [s \in Streams |-> [f \in Fields |-> None]]
          /\ h5'.timestamps = [s \in Streams |-> [f \in Fields |-> None]]
          /\ h5'.stop = None
          /\ mirrors_start(h5'.start[1], start_doc'[1])]_vars

C12_Witness ==
  /\ name = "start" /\ raised = NoError
  /\ h5.groups = {"start", "descriptors", "events", "stop"}
  /\ h5.start[1].uid = "u2"
  /\ h5.start[1].sample_name = Some("s")
  /\ h5.start[1].md # None
  /\ h5.stop = None

blocks_of(doc) == IF doc.techniques = None THEN <<>> ELSE doc.techniques[1]
stop_arrives == h5_open /\ h5.stop = None /\ delivers({"stop"})

C14_StopOrder ==
  [][stop_arrives =>
       /\ h5'.stop # None
       /\ h5'.nexus # {} => (h5'.stop # None /\ h5'.start # None)
       /\ h5'.nexus = DOMAIN blocks_of(start_doc[1])
       /\ ~h5_open' /\ releases' = releases + 1]_vars

\* C15: when stop is processed the materializer runs exactly once for each
\* technique block of the start document's md.techniques, so that after the
\* stop of a run with k blocks the call has not raised and k payloads are in
\* the container; with md or md.techniques absent, or an empty list, nothing
\* is materialized and stop completes without error.
C15_OncePerTechniqueBlock ==
  [][stop_arrives =>
       /\ raised' = NoError
       /\ Cardinality(h5'.nexus) = Len(blocks_of(start_doc[1]))]_vars

\* ------------------------------------------------------------------------
\* The grammar "#bluesky/" (start | stop | desc/<stream>) ("/" key)*
\* ("@" attribute)? as an automaton over the tokens of an address.
delta(q, t) ==
  IF q = "begin" THEN (IF t = "#bluesky" THEN "hash" ELSE "reject")
  ELSE IF q = "hash" THEN (IF t = "/" THEN "selector" ELSE "reject")
  ELSE IF q = "selector"
  THEN (IF t \in {"start", "stop"} THEN "doc" ELSE IF t = "desc" THEN "desc" ELSE "reject")
  ELSE IF q = "desc" THEN (IF t = "/" THEN "stream name" ELSE "reject")
  ELSE IF q = "stream name" THEN (IF t \in WordTokens THEN "stream" ELSE "reject")
  ELSE IF q = "key name" THEN (IF t \in WordTokens THEN "key" ELSE "reject")
  ELSE IF q = "attribute name" THEN (IF t \in WordTokens THEN "attribute" ELSE "reject")
  ELSE IF q = "attribute" THEN (IF t \in WordTokens THEN "attribute" ELSE "reject")
  ELSE IF q \in {"doc", "stream", "key"}
  THEN (IF t = "/" THEN "key name"
        ELSE IF t = "@" THEN "attribute name"
        ELSE IF t \in WordTokens /\ q # "doc" THEN q
        ELSE "reject")
  ELSE "reject"
RECURSIVE run(_, _)
run(q, s) == IF s = <<>> THEN q ELSE run(delta(q, Head(s)), Tail(s))
WellFormed(s) == run("begin", s) \in {"doc", "stream", "key", "attribute"}
is_word(w) == w # <<>> /\ \A i \in 1..Len(w) : w[i] \in WordTokens
parts(p) == [doc |-> p.doc, stream |-> p.stream, keys |-> p.keys, attribute |-> p.attribute]

\* C17: for every address that matches the grammar, parsing does not raise
\* and yields doc equal to start, stop or desc, stream equal to the stream
\* name exactly when doc is desc, keys equal to the key segments in order
\* (the empty tuple when there are none) and attribute equal to the trailing
\* attribute name or absent: the parts written back give the address, and
\* an address written from parts parses to those parts.
C17_ParsedParts ==
  (parsed # None /\ WellFormed(address)) =>
    /\ parsed[1].raised = NoError
    /\ LET p == parsed[1].path_info[1] IN
       /\ p.doc \in {<<"start">>, <<"stop">>, <<"desc">>}
       /\ (p.doc = <<"desc">>) <=> (p.stream # None)
       /\ p.stream # None => is_word(p.stream[1])
       /\ \A i \in 1..Len(p.keys) : is_word(p.keys[i])
       /\ p.attribute # None => is_word(p.attribute[1])
       /\ render(parts(p)) = address
       /\ intended # None => parts(p) = intended[1]

C17_Witness ==
  /\ parsed # None /\ intended # None
  /\ parsed[1].raised = NoError
  /\ parsed[1].path_info[1].doc = <<"desc">>
  /\ parsed[1].path_info[1].stream = Some(<<"primary">>)
  /\ parsed[1].path_info[1].keys = <<<<"data_keys">>, <<"uid">>>>
  /\ parsed[1].path_info[1].attribute = Some(<<"units">>)

\* C18: every address that does not match the whole grammar is rejected with
\* a parse error that names the address, also when a prefix of it matches.
C18_MalformedRejected ==
  (parsed # None /\ ~WellFormed(address)) =>
    /\ parsed[1].raised = "Exception:failed to parse"
    /\ parsed[1].named = address

\* the node at a path of names from the root, or 0
RECURSIVE lookup(_, _, _)
lookup(f, id, names) ==
  IF names = <<>> THEN id
  ELSE LET next == {c \in f.objs[id].children : c[1] = Head(names)}
       IN IF next = {} THEN 0
          ELSE lookup(f, (CHOOSE c \in next : TRUE)[2], Tail(names))
\* where the serializer wrote the section an address selects
section(c) ==
  IF c.doc = <<"desc">> THEN <<"bluesky", "descriptors", c.stream[1][1]>>
  ELSE <<"bluesky", c.doc[1]>>
raw_node(c) == lookup(RunFile, root, section(c) \o [i \in 1..Len(c.keys) |-> c.keys[i][1]])

\* C19: for each of the selectors start, stop and desc/<stream>, resolving a
\* parsed address walks from the bluesky root through the section of the
\* selector (for desc, the descriptor section of the named stream) and through
\* the keys in order and returns the node found there; an address of a node
\* that exists resolves without error.
C19_ResolveWalk ==
  (resolved # None /\ intended # None /\ raw_node(intended[1]) # 0) =>
    /\ resolved[1].raised = NoError
    /\ resolved[1].id = raw_node(intended[1])

\* the number of groups and leaves a payload asks for, links not counted
is_link_value(value) ==
  IF value.t = "map" THEN has_key(value.items, "_link")
  ELSE value.v # <<>> /\ value.v[1] = "#bluesky"
RECURSIVE created(_)
created_by(nexus_key, value) ==
  IF nexus_key \in {"_attributes", "_link"} THEN 0
  ELSE (IF is_link_value(value) THEN 0 ELSE 1)
       + (IF value.t = "map" THEN created(value.items) ELSE 0)
created(items) ==
  IF items = <<>> THEN 0
  ELSE created_by(Head(items)[1], Head(items)[2]) + created(Tail(items))

\* the entry "name" of the group "entry" the payload creates, or 0
entry_name == lookup(h5_file, root, <<"entry", "name">>)
is_link == address # <<>> /\ address[1] = "#bluesky"
raw_ids == 1..Len(RunFile.objs)

\* C16: a NeXus entry whose value is a #bluesky address (or a mapping with a
\* _link) is bound to the raw node the address resolves to: the entry is the
\* raw object itself under a second name, its value is the raw value, and no
\* object was created for it.
C16_LinkIsAlias ==
  (materialized = Some(NoError) /\ is_link) =>
    /\ entry_name \in raw_ids
    /\ h5_file.objs[entry_name].value = RunFile.objs[entry_name].value
    /\ Len(h5_file.objs) = Len(RunFile.objs) + created(nexus_md)
    /\ intended # None => entry_name = raw_node(intended[1])

C16_Witness ==
  /\ materialized = Some(NoError)
  /\ intended # None
  /\ intended[1].doc = <<"stop">> /\ intended[1].keys = <<<<"time">>>>
  /\ entry_name = lookup(h5_file, root, <<"bluesky", "stop", "time">>)
  /\ h5_file.objs[entry_name].value = <<"1600000000.0">>
  /\ has_key(nexus_md[1][2].items, "name")
  /\ get(nexus_md[1][2].items, "name").t = "leaf"

\* C20: when a nested mapping of a payload has a _link and _attributes beside
\* it, the attributes go to the link and not to the raw target: after the
\* payload has been materialized every raw node under bluesky/ has the
\* attributes it had before.
has_link_attributes ==
  /\ nexus_md # <<>>
  /\ get(nexus_md[1][2].items, "name").t = "map"
  /\ has_key(get(nexus_md[1][2].items, "name").items, "_attributes")
C20_AttributesOnLink ==
  (materialized = Some(NoError) /\ has_link_attributes) =>
    \A id \in raw_ids : h5_file.objs[id].attrs = RunFile.objs[id].attrs

\* ------------------------------------------------------------------------
\* the names of the children of a node, and the keys of a mapping that are
\* neither _attributes nor _link
child_names(f, id) == {c[1] : c \in f.objs[id].children}
plain_keys(items) == {items[i][1] : i \in 1..Len(items)} \ {"_attributes", "_link"}
has_attributes(f, id, attributes) ==
  \A j \in 1..Len(attributes) : <<attributes[j][1], attributes[j][2].v>> \in f.objs[id].attrs

\* the group id was made from the items of a mapping: one child per plain
\* key, a link (an object of the raw tree), a new subgroup made from the
\* nested mapping, or a new leaf with the value
RECURSIVE made_from(_, _, _)
made_entry(f, id, nexus_key, value) ==
  IF nexus_key = "_link" THEN TRUE
  ELSE IF nexus_key = "_attributes" THEN has_attributes(f, id, value.items)
  ELSE IF ~has_child(f, id, nexus_key) THEN FALSE
  ELSE IF is_link_value(value) THEN child(f, id, nexus_key) \in raw_ids
  ELSE IF value.t = "map"
  THEN child(f, id, nexus_key) \notin raw_ids /\ made_from(f, child(f, id, nexus_key), value.items)
  ELSE /\ child(f, id, nexus_key) \notin raw_ids
       /\ f.objs[child(f, id, nexus_key)].kind = "dataset"
       /\ f.objs[child(f, id, nexus_key)].value = value.v
made_from(f, id, items) ==
  /\ f.objs[id].kind = "group"
  /\ child_names(f, id) = plain_keys(items)
  /\ Cardinality(f.objs[id].children) = Cardinality(plain_keys(items))
  /\ \A i \in 1..Len(items) : made_entry(f, id, items[i][1], items[i][2])

read_back(f, id) == f.objs[id].value[2]
strings_of(value) == [i \in 1..Len(value.items) |-> value.items[i].v]
is_strings(value) ==
  value.t \in {"list", "tuple"} /\ \A i \in 1..Len(value.items) : value.items[i].t = "leaf"

\* the group id mirrors the items of a mapping
RECURSIVE mirrors(_, _, _)
mirrors_leaf(f, id, value) ==
  /\ f.objs[id].kind = "dataset"
  /\ value.t = "none" => read_back(f, id) = <<"None">>
  /\ value = Bytes(<<"NUL">>) => read_back(f, id) = <<>>
  /\ value.t = "leaf" => read_back(f, id) = value.v
  /\ is_strings(value) => read_back(f, id) = strings_of(value)
mirrors_entry(f, id, key, value) ==
  IF ~has_child(f, id, key) THEN FALSE
  ELSE IF value.t = "map" THEN mirrors(f, child(f, id, key), value.items)
  ELSE mirrors_leaf(f, child(f, id, key), value)
mirrors(f, id, items) ==
  /\ f.objs[id].kind = "group"
  /\ child_names(f, id) = {items[i][1] : i \in 1..Len(items)}
  /\ Cardinality(f.objs[id].children) = Len(items)
  /\ \A i \in 1..Len(items) : mirrors_entry(f, id, items[i][1], items[i][2])

\* C22: the metadata writer mirrors a mapping one-to-one: a nested mapping
\* becomes a group of that name made recursively, every other key exactly one
\* leaf of that name; None is stored as the string "None", a single null byte
\* as the empty string, a string or a list/tuple of strings reads back with
\* the same values; the group has as many children as the mapping has keys.
C22_MirrorsMapping ==
  copied = Some(NoError) => mirrors(h5_file, root, a_mapping)

C22_Witness ==
  /\ copied = Some(NoError)
  /\ a_mapping = <<<<"hints", Map(<<<<"fields", NoneValue>>>>)>>,
                   <<"detectors", List(<<Leaf(<<"det1">>), Leaf(<<"det2">>)>>)>>>>
  /\ read_back(h5_file, lookup(h5_file, root, <<"hints", "fields">>)) = <<"None">>
  /\ read_back(h5_file, lookup(h5_file, root, <<"detectors">>)) = <<<<"det1">>, <<"det2">>>>

\* values the container has no type for, and values whose writing fails
\* for another reason (a null character in a string)
too_complex(value) ==
  /\ value.t \in {"list", "tuple"}
  /\ \E i \in 1..Len(value.items) : value.items[i].t # "leaf"
  /\ \E i \in 1..Len(value.items) : value.items[i].t # "int"
RECURSIVE fatal(_)
fatal_value(value) ==
  IF value.t = "map" THEN fatal(value.items)
  ELSE IF value.t = "leaf" THEN \E i \in 1..Len(value.v) : value.v[i] = "NUL"
  ELSE IF is_strings(value)
  THEN \E j \in 1..Len(value.items) : \E i \in 1..Len(value.items[j].v) : value.items[j].v[i] = "NUL"
  ELSE FALSE
fatal(items) == \E i \in 1..Len(items) : fatal_value(items[i][2])

\* every key up to the first fatal one is written, a too complex value as
\* the JSON encoding of the value
RECURSIVE recovered(_, _, _)
recovered_entry(f, id, key, value) ==
  IF ~has_child(f, id, key) THEN FALSE
  ELSE IF value.t = "map" THEN recovered(f, child(f, id, key), value.items)
  ELSE /\ f.objs[child(f, id, key)].kind = "dataset"
       /\ too_complex(value) => f.objs[child(f, id, key)].value = <<"vlen_str", <<"json", value>>>>
recovered(f, id, items) ==
  \A i \in 1..Len(items) :
    ~fatal(SubSeq(items, 1, i)) => recovered_entry(f, id, items[i][1], items[i][2])

\* C23: when the container rejects the type of a metadata value the writer
\* stores the JSON encoding of the value as a string leaf under the same key,
\* raises nothing and goes on to write the remaining keys; any other failure
\* while writing a leaf is raised to the caller.
C23_EncodingFallback ==
  copied # None =>
    /\ copied = Some(IF fatal(a_mapping) THEN "ValueError:embedded NULLs" ELSE NoError)
    /\ recovered(h5_file, root, a_mapping)
    /\ ~fatal(a_mapping) => child_names(h5_file, root) = {a_mapping[i][1] : i \in 1..Len(a_mapping)}

C23_Witness ==
  /\ copied = Some(NoError)
  /\ a_mapping = <<<<"hints", List(<<Leaf(<<"time">>), Integer("1")>>)>>,
                   <<"plan_name", Leaf(<<"scan">>)>>>>
  /\ read_back(h5_file, lookup(h5_file, root, <<"hints">>))
       = <<"json", List(<<Leaf(<<"time">>), Integer("1")>>)>>
  /\ read_back(h5_file, lookup(h5_file, root, <<"plan_name">>)) = <<"scan">>

\* ------------------------------------------------------------------------
\* C25: a filename template that names a field the start document does not
\* have makes start fail with an error; after that failure no container has
\* been opened or created and the artifacts accessor still reports that no
\* artifacts exist.
template_lacks(doc) == file_prefix = "{sample_name}-" /\ doc.sample_name = None
C25_TemplateFieldAbsent ==
  [][(delivers({"start"}) /\ start_doc = None /\ template_lacks(start_doc'[1])) =>
       /\ raised' # NoError
       /\ h5_output_file' = None /\ ~h5_open' /\ h5' = EmptyFile
       /\ output_filepath' = None
       /\ "raised" \in DOMAIN artifacts']_vars

C25_Witness ==
  /\ name = "start" /\ raised = "KeyError:template"
  /\ start_doc # None /\ start_doc[1].sample_name = None
  /\ file_prefix = "{sample_name}-"
  /\ h5_output_file = None /\ output_filepath = None

\* C26: the additional keyword settings given to export or to the
\* constructor are passed to the storage library when the container is
\* opened at start.
C26_SettingsPassedThrough ==
  [][(delivers({"start"}) /\ h5_output_file = None /\ h5_output_file' # None) =>
       h5_output_file'[1].kwds = kwargs]_vars

\* ------------------------------------------------------------------------
\* C28: the reconciler decides among three outcomes: the declared shape's
\* leading axes equal the sample's shape and the stored shape is left as it
\* is; else the reverse of the declared shape's leading axes equals the
\* sample's shape and the stored shape is replaced by the reversed order;
\* otherwise it raises.  A declared shape that lists the sample's axes in the
\* sample's order is never rejected, whatever the number of dimensions.
C28_ThreeOutcomes ==
  rc_runs >= 1 =>
    LET before == rc_history[1].before
        after == rc_history[1].after
        err == rc_history[1].raised
    IN /\ leading_two(before) = rc_event_shape => (err = NoError /\ after = before)
       /\ (leading_two(before) # rc_event_shape /\ in_reverse(leading(before)) = rc_event_shape) =>
            (err = NoError /\ after = in_reverse(before))
       /\ Irreconcilable(before, rc_event_shape) => (err # NoError /\ after = before)
       /\ leading(before) = rc_event_shape => err = NoError

\* ------------------------------------------------------------------------
\* C30: the event_page handler creates or appends storage only under a stream
\* that a descriptor processed earlier in the run introduced: an event_page
\* whose descriptor has not been processed is rejected with an error and no
\* storage of any stream is created or changed.
storage == <<h5.data, h5.timestamps>>
C30_DescriptorFirst ==
  [][/\ \A doc \in AppenderEventPages :
          (Deliverable /\ get_descriptor(doc) = {}) =>
            (event_page(doc).raised # NoError /\ event_page(doc).h5 = h5)
     /\ \A s \in Streams :
          (h5'.data[s] # h5.data[s] \/ h5'.timestamps[s] # h5.timestamps[s]) =>
            /\ name' = "event_page"
            /\ h5.descriptors[s] # None
            /\ \E d \in descriptors : d.name = s
     /\ (delivers({"event_page"}) /\ raised' = "EventModelValueError") => storage' = storage]_vars

C30_Witness ==
  /\ name = "event_page" /\ raised = "EventModelValueError"
  /\ has_data("primary", "en_energy") /\ has_timestamps("primary", "en_energy")
  /\ supplied["primary"]["en_energy"].pages = 1
  /\ \A d \in descriptors : d.uid = "d1"

\* ------------------------------------------------------------------------
\* C29: for a field declared "array" the shape check and correction runs at
\* most once per run, on the first event_page that carries the field and
\* before the field's value storage is created; it never runs on a later
\* event_page for a field whose storage exists, and the stored declared shape
\* does not change once the storage has been created.
declared_shape(h, s, f) == h.descriptors[s][1].data_keys[f].shape
h5_dtype_of(category, sample_dtype) ==
  IF category = "string" THEN "vlen_str"
  ELSE IF category = "number" THEN "f8"
  ELSE IF category = "integer" THEN "i4"
  ELSE sample_dtype
C24_ElementType ==
  \A doc \in DtypeEventPages :
    Deliverable =>
      LET r == event_page(doc) IN
      \A i \in 1..Len(doc.keys) :
        (/\ reached(r, i)
         /\ ~has_data(get_stream_name(doc), doc.keys[i])
         /\ h5.descriptors[get_stream_name(doc)][1].data_keys[doc.keys[i]].declared) =>
          LET s == get_stream_name(doc)
              f == doc.keys[i]
              category == h5.descriptors[s][1].data_keys[f].dtype
          IN IF category \in {"string", "number", "integer", "array"}
             THEN /\ ~(r.raised = "ValueError:dtype" /\ r.at = i)
                  /\ processed(r, i) =>
                       /\ r.h5.data[s][f] # None
                       /\ r.h5.data[s][f][1].dtype = h5_dtype_of(category, doc.dtype[f])
             ELSE /\ r.raised = "ValueError:dtype" /\ r.at = i
                  /\ r.h5.data[s][f] = None
                  /\ r.h5.timestamps[s][f] = None

C24_Witness ==
  /\ name = "event_page" /\ raised = "ValueError:dtype" /\ raised_at = 2
  /\ h5.descriptors["primary"][1].data_keys.en_energy.dtype = "boolean"
  /\ ~has_data("primary", "en_energy") /\ ~has_timestamps("primary", "en_energy")
  /\ has_data("primary", "image")
  /\ h5.data["primary"]["image"][1].dtype = "f4"

\* ------------------------------------------------------------------------
\* the outcome of parsing and resolving the address written from parts c
resolve_parsed(p, f) ==
  IF p.raised # NoError THEN [raised |-> p.raised, id |-> 0]
  ELSE get_h5_group_or_dataset(p.path_info[1], f)
resolve_written(c, f) == resolve_parsed(parse_bluesky_document_path(render(c)), f)
without_attribute(c) == [c EXCEPT !.attribute = None]

\* C31: the trailing @attribute of an address is parsed but not dereferenced:
\* resolving a well-formed address that ends in @attribute has the outcome of
\* resolving the same address without the suffix, and for a start or stop
\* address of a node that exists it returns that node, not a child of it
\* named by the attribute.
C31_AttributeNotDereferenced ==
  (resolved # None /\ intended # None /\ intended[1].attribute # None) =>
    /\ parsed[1].path_info[1].attribute = intended[1].attribute
    /\ resolved[1] = resolve_written(without_attribute(intended[1]), RunFile)
    /\ (intended[1].doc # <<"desc">> /\ raw_node(intended[1]) # 0) =>
         /\ resolved[1].raised = NoError
         /\ resolved[1].id = raw_node(without_attribute(intended[1]))

C31_Witness ==
  /\ resolved # None /\ intended # None
  /\ intended[1].doc = <<"start">>
  /\ intended[1].keys = <<>>
  /\ intended[1].attribute = Some(<<"units">>)
  /\ resolved[1].raised = NoError
  /\ h5_file.objs[resolved[1].id].kind = "group"
  /\ resolved[1].id = lookup(RunFile, root, <<"bluesky", "start">>)

\* C33: releasing the serializer completes without raising in every life
\* cycle state: once the with-block of export has been left, the error that
\* leaves it is the error of the last document (none after an empty document
\* sequence), never an error raised by close.
C33_ReleaseNeverRaises ==
  scope = "out" => propagated = raised

\* C34: whenever the stop handler has finished on a serializer that has a
\* container, by returning or by raising, the container is closed.
C34_StopAlwaysCloses ==
  (name = "stop" /\ h5_output_file # None) => ~h5_open

\* ------------------------------------------------------------------------
\* C38: a descriptor of the run whose stream name an earlier descriptor has
\* introduced is rejected with an error, and the container, with the earlier
\* stream's descriptor metadata and its value and timestamp storage, is left
\* as it was.
C38_StreamNamesUnique ==
  \A doc \in AppenderDescriptorDocs :
    (/\ CanDeliver /\ start_doc # None /\ doc.run_start = start_doc[1].uid
     /\ h5_output_file # None /\ h5_open
     /\ h5.descriptors[doc.name] # None) =>
      /\ descriptor(doc).raised = "ValueError:exists"
      /\ descriptor(doc).h5 = h5

C38_Witness ==
  /\ name = "descriptor" /\ raised = "ValueError:exists"
  /\ h5.descriptors["primary"] # None
  /\ h5.descriptors["primary"][1].uid = "d1"
  /\ \E d \in descriptors : d.uid = "d2" /\ d.name = "primary"
  /\ has_data("primary", "en_energy") /\ has_timestamps("primary", "en_energy")
  /\ data_rows(h5, "primary", "en_energy") = supplied["primary"]["en_energy"].data

\* ------------------------------------------------------------------------
\* C39: an event_page that names a field the descriptor of its stream did
\* not declare is rejected with an error, raised no later than at that field,
\* and the field has no value and no timestamp storage afterwards.
undeclared(h, s, f) == ~h.descriptors[s][1].data_keys[f].declared
C39_UndeclaredFieldRejected ==
  \A doc \in DtypeEventPages :
    (Deliverable /\ get_descriptor(doc) # {} /\ h5.descriptors[get_stream_name(doc)] # None) =>
      \A i \in 1..Len(doc.keys) :
        undeclared(h5, get_stream_name(doc), doc.keys[i]) =>
          /\ event_page(doc).raised # NoError
          /\ h5_open => event_page(doc).at \in 1..i
          /\ event_page(doc).h5.data[get_stream_name(doc)][doc.keys[i]] = None
          /\ event_page(doc).h5.timestamps[get_stream_name(doc)][doc.keys[i]] = None

C39_Witness ==
  /\ name = "event_page" /\ raised = "KeyError:data_key" /\ raised_at = 2
  /\ undeclared(h5, "primary", "image")
  /\ ~has_data("primary", "image") /\ ~has_timestamps("primary", "image")
  /\ has_data("primary", "en_energy") /\ has_timestamps("primary", "en_energy")

\* ------------------------------------------------------------------------
\* C35: in every reachable state, also the one an event_page that raised
\* part-way leaves behind, a field of a stream has value storage if and only
\* if it has timestamp storage.
C35_StorageInPairs ==
  \A s \in Streams, f \in Fields : has_data(s, f) <=> has_timestamps(s, f)

\* ------------------------------------------------------------------------
\* C37: an event_page of one stream, whether it returns or raises, leaves
\* unchanged the value and timestamp storage of every other stream, the
\* storage of every field of its stream that it does not name, and the
\* start section (and the stop section and the groups); the only change to a
\* descriptor node is the declared shape of an "array" field the page names
\* and that had no storage before the page.
other_than_shape(h, s) ==
  IF h.descriptors[s] = None THEN None
  ELSE Some([h.descriptors[s][1] EXCEPT !.data_keys =
               [f \in Fields |-> [@[f] EXCEPT !.shape = <<>>]]])
frame_of(doc, stream, after) ==
  /\ \A s \in Streams \ {stream} :
       after.data[s] = h5.data[s] /\ after.timestamps[s] = h5.timestamps[s]
  /\ \A f \in Fields \ keys_of(doc) :
       /\ after.data[stream][f] = h5.data[stream][f]
       /\ after.timestamps[stream][f] = h5.timestamps[stream][f]
  /\ after.start = h5.start /\ after.stop = h5.stop
  /\ after.groups = h5.groups /\ after.events = h5.events /\ after.nexus = h5.nexus
  /\ \A s \in Streams :
       /\ other_than_shape(after, s) = other_than_shape(h5, s)
       /\ after.descriptors[s] # h5.descriptors[s] =>
            /\ s = stream
            /\ \A f \in Fields :
                 declared_shape(after, s, f) # declared_shape(h5, s, f) =>
                   /\ f \in keys_of(doc)
                   /\ h5.descriptors[s][1].data_keys[f].dtype = "array"
                   /\ ~has_data(s, f)
C37_EventPageFrame ==
  \A doc \in AppenderEventPages :
    (Deliverable /\ get_descriptor(doc) # {}) =>
      frame_of(doc, get_stream_name(doc), event_page(doc).h5)

C37_Witness ==
  /\ name = "event_page" /\ raised = NoError
  /\ supplied["baseline"]["en_energy"].pages = 1
  /\ supplied["primary"]["image"].pages = 1
  /\ has_data("baseline", "en_energy") /\ has_data("primary", "image")
  /\ data_rows(h5, "baseline", "en_energy") = supplied["baseline"]["en_energy"].data
  /\ ~has_data("primary", "en_energy") /\ ~has_data("baseline", "image")
  /\ declared_shape(h5, "primary", "image") = <<0, 2, 3>>

\* ------------------------------------------------------------------------
\* the container of the run before its first event_page: start, then the
\* descriptor d
before_pages(d) ==
  [started_file(start_doc[1]) EXCEPT !.descriptors[d.name] = Some(d), !.events = {d.name}]
\* the first n events of field f delivered as one event_page, and as n
\* events (event_pages of one event) from event e on
as_one_page(h, f, n) ==
  event_page_loop(h, "primary", PageOfEvents(0, <<f>>, [g \in Fields |-> 0], n), 1).h5
RECURSIVE as_single_events(_, _, _, _)
as_single_events(h, f, e, n) ==
  IF e > n THEN h
  ELSE as_single_events(
         event_page_loop(h, "primary", PageOfEvents(0, <<f>>, [g \in Fields |-> e - 1], 1), 1).h5,
         f, e + 1, n)
\* the descriptor the stream was created from: the one in the container, with
\* the shape it declared before any correction
accepted ==
  {d \in PagingDescriptorDocs :
     /\ h5.descriptors["primary"] # None
     /\ other_than_shape(before_pages(d), "primary") = other_than_shape(h5, "primary")
     /\ \A f \in Fields :
          declared_shape(h5, "primary", f)
            \in {d.data_keys[f].shape, reversed(d.data_keys[f].shape)}}
same_storage(f, h, other) ==
  /\ h.data["primary"][f] = other.data["primary"][f]
  /\ h.timestamps["primary"][f] = other.timestamps["primary"][f]

\* C36: the value and timestamp storage of a field (lengths, contents in
\* order, element type and row shape) after its first N events have been
\* processed is the same however the events were split into event_pages: it
\* equals the storage left by one event_page of N events and the storage
\* left by N single events.
C36_PagingIndependent ==
  /\ (\E f \in Fields : supplied["primary"][f].pages >= 1) => accepted # {}
  /\ \A f \in Fields, d \in accepted :
      (<<"primary", f>> \in clean /\ supplied["primary"][f].pages >= 1) =>
        /\ same_storage(f, h5, as_one_page(before_pages(d), f, supplied["primary"][f].events))
        /\ same_storage(f, h5, as_single_events(before_pages(d), f, 1, supplied["primary"][f].events))
        /\ Len(data_rows(h5, "primary", f)) = supplied["primary"][f].events
        /\ Len(timestamp_rows(h5, "primary", f)) = supplied["primary"][f].events

C36_Witness ==
  /\ name = "event_page" /\ raised = NoError
  /\ accepted # {}
  /\ <<"primary", "image">> \in clean
  /\ supplied["primary"]["image"].pages = 2
  /\ supplied["primary"]["image"].events = 3
  /\ supplied["primary"]["en_energy"].pages = 1
  /\ data_rows(h5, "primary", "image") = <<101, 102, 103>>
  /\ timestamp_rows(h5, "primary", "image") = <<1001, 1002, 1003>>
  /\ h5.data["primary"]["image"][1].dtype = "u4"

\* ------------------------------------------------------------------------
\* the instance and the files left by the documents docs delivered to a new
\* instance in an empty directory
RECURSIVE replay(_, _, _)
replay_rest(r, docs) == replay(r.self, r.disk, docs)
replay(self, fs, docs) ==
  IF docs = <<>> THEN [self |-> self, disk |-> fs]
  ELSE replay_rest(Serializer_call(self, fs, Head(docs)[1], Head(docs)[2]), Tail(docs))
path_of(i) == serializers[i].output_filepath
equals_alone(i, alone) ==
  /\ serializers[i] = alone.self
  /\ path_of(i) # None => disk[path_of(i)[1]] = alone.disk[path_of(i)[1]]
untouched(i) ==
  /\ serializers'[i] = serializers[i]
  /\ path_of(i) # None => disk'[path_of(i)[1]] = disk[path_of(i)[1]]

\* C32: two serializer instances that process runs with different unique
\* ids under the default template own different containers: in every
\* interleaving of the two runs' documents their output paths differ, a
\* document delivered to one instance leaves the other instance and the
\* other's container as they were, and each instance and its container are
\* at every moment, the last included, what the run's documents produce when
\* the run is processed alone.
C32_RunsIsolated ==
  /\ [](/\ \A i \in Runs : equals_alone(i, replay(NewSerializer, NoFiles, delivered[i]))
        /\ \A i, j \in Runs :
             (i # j /\ path_of(i) # None /\ path_of(j) # None) => path_of(i) # path_of(j))
  /\ [][\A i \in Runs : delivered'[i] = delivered[i] => untouched(i)]_vars

C32_Witness ==
  /\ \A i \in Runs :
       /\ "stop" \in kinds_of(i) /\ pages_of(i) = MaxPages
       /\ serializers[i].raised = NoError
       /\ ~serializers[i].h5_open
       /\ ~disk[path_of(i)[1]][1].open
       /\ disk[path_of(i)[1]][1].h5.start[1].uid = RunUid[i]
       /\ disk[path_of(i)[1]][1].h5.stop # None
       /\ Len(disk[path_of(i)[1]][1].h5.data["primary"]["en_energy"][1].rows) >= MaxPages
  /\ path_of(1) # path_of(2)

====
